---- MODULE Spec2Model ----
(***************************************************************************)
(* Guppy Zuchtbuch (Option B): the in-memory document, its mutations with  *)
(* their cascades, the persisted localStorage slot with loadState and      *)
(* saveState, and the import handler of the settings tab.                  *)
(*                                                                         *)
(* JavaScript values are dynamically typed, so every value is modelled as  *)
(* a record: a primitive carries its typeof in the field j, an array is    *)
(* [j |-> "arr", arr |-> <<...>>], and an object is the record of its own  *)
(* properties (it has no field j).  Numbers are held in tenths (25.2 is    *)
(* JNum(252)), so that the seed's decimals stay integers.                  *)
(***************************************************************************)
EXTENDS Integers, Sequences, FiniteSets, TLC

VARIABLES
    state,       \* useState<AppState>: the in-memory document
    slot,        \* localStorage[STORAGE_KEY]
    dirty,       \* the useEffect(saveState, [state]) is scheduled and has not run
    nextId,      \* number of uid() calls made so far, plus one
    tab,         \* the mounted tab
    selectedId,  \* ZuchtjournalTab: selectedId
    editOpen,    \* ZuchtjournalTab: editOpen
    edit,        \* ZuchtjournalTab: edit (the attempt object captured by Bearbeiten, or null)
    gTankId,     \* ZuchtjournalTab: gTankId
    lTankId,     \* ZuchtjournalTab: lTankId
    tOpen,       \* TanksTab: open
    tEditing,    \* TanksTab: editing (the tank object captured by Bearbeiten, or null)
    wTankId,     \* WaterTab: tankId
    pc,          \* position of the import handler (and of the page reload it starts)
    payload,     \* content of the file handed to the import handler
    raw,         \* slot content handed to loadState (load specification)
    loaded,      \* what loadState returned for raw (load specification)
    value,       \* the value handed to inRange (threshold specification)
    lim,         \* the limits handed to inRange (threshold specification)
    badge,       \* what inRange returned for them, "" before the call (threshold specification)
    dash,        \* what DashboardTab last rendered, null before (dashboard specification)
    lastOp,      \* history: the last operation applied
    prev,        \* history: the document before the last operation
    ops          \* history: the number of setState calls made so far

vars == <<state, slot, dirty, nextId, tab, selectedId, editOpen, edit, gTankId,
          lTankId, tOpen, tEditing, wTankId, pc, payload, raw, loaded, value, lim, badge, dash, lastOp, prev, ops>>

uiVars == <<tab, selectedId, editOpen, edit, gTankId, lTankId, tOpen, tEditing, wTankId>>
importVars == <<pc, payload>>
loadVars == <<raw, loaded>>
rangeVars == <<value, lim, badge>>
dashVars == <<dash>>

-----------------------------------------------------------------------------
(* Bounds of the model *)

\* a run makes at most MaxOps changes of the document (setState calls)
MaxOps == 2

-----------------------------------------------------------------------------
(* JavaScript values *)

JNull == [j |-> "null"]
Undefined == [j |-> "undef"]
JStr(s) == [j |-> "str", str |-> s]
JBool(b) == [j |-> "bool", bool |-> b]
JNum(n) == [j |-> "num", num |-> n]
NaN == [j |-> "num", nan |-> TRUE]
Infinity == [j |-> "num", inf |-> TRUE]
JArr(q) == [j |-> "arr", arr |-> q]

IsObj(v) == "j" \notin DOMAIN v
IsArr(v) == ~IsObj(v) /\ v.j = "arr"
IsStr(v) == ~IsObj(v) /\ v.j = "str"
IsBool(v) == ~IsObj(v) /\ v.j = "bool"
\* typeof v === "number": NaN is a number too
IsNum(v) == ~IsObj(v) /\ v.j = "num"
IsFinite(v) == IsNum(v) /\ "num" \in DOMAIN v
\* typeof v === "object": objects, arrays and null
TypeofObject(v) == IsObj(v) \/ v.j \in {"arr", "null"}
\* v == null
IsNullish(v) == ~IsObj(v) /\ v.j \in {"null", "undef"}

\* ToBoolean
Truthy(v) ==
    \/ IsObj(v)
    \/ IsArr(v)
    \/ IsBool(v) /\ v.bool
    \/ IsStr(v) /\ v.str # ""
    \/ IsNum(v) /\ v # NaN /\ (IsFinite(v) => v.num # 0)

\* o?.f
Get(o, f) == IF IsObj(o) /\ f \in DOMAIN o THEN o[f] ELSE Undefined
\* a || b
OrElse(a, b) == IF Truthy(a) THEN a ELSE b
\* { ...o, f: v }
With(o, f, v) == [k \in DOMAIN o \cup {f} |-> IF k = f THEN v ELSE o[k]]
\* { ...a, ...b }
Spread(a, b) == [k \in DOMAIN a \cup DOMAIN b |-> IF k \in DOMAIN b THEN b[k] ELSE a[k]]

Range(q) == {q[i] : i \in DOMAIN q}
\* [x, ...q]
Cons(x, q) == <<x>> \o q
\* q.filter(x => x !== v)
Without(q, v) == SelectSeq(q, LAMBDA x: x # v)
\* q.includes(v)
Includes(q, v) == v \in Range(q)

uid(n) == JStr("u" \o ToString(n))

-----------------------------------------------------------------------------
(* Wasserwerte: the parameter catalog *)

ALL_PARAM_KEYS == <<"temp", "ph", "gh", "kh", "no2", "no3", "tds", "cond">>
ParamKeys == Range(ALL_PARAM_KEYS)

makeAllParams(enabled) == [k \in ParamKeys |-> JBool(enabled)]
makeDefaultLimits == [k \in ParamKeys |-> [min |-> JNull, max |-> JNull]]

\* { ...makeAllParams(false), k: true for k in on }
ParamsOn(on) == [k \in ParamKeys |-> JBool(k \in on)]

-----------------------------------------------------------------------------
(* Dates: toISODate(new Date()) and the two dates seed() derives from it *)

Today == JStr("2025-01-22")
SeedT0 == JStr("2025-01-01")
SeedT1 == JStr("2025-01-15")

-----------------------------------------------------------------------------
(* Storage: seed, loadState, saveState *)

\* uid() calls made by one seed()
SeedIds == 10

\* seed(), with its uid() calls numbered n, n+1, ... in the order of the source
seed(n) ==
    LET tankA == [id |-> uid(n), name |-> JStr("Becken 01"), volumeL |-> JNum(540),
                  location |-> JStr("Wohnzimmer"), purpose |-> JStr("Zucht"), active |-> JBool(TRUE),
                  waterParams |-> ParamsOn({"temp", "ph", "gh", "kh", "no2", "no3"})]
        tankB == [id |-> uid(n + 1), name |-> JStr("Becken 02"), volumeL |-> JNum(300),
                  location |-> JStr("Regal"), purpose |-> JStr("Aufzucht"), active |-> JBool(TRUE),
                  waterParams |-> ParamsOn({"temp", "ph", "no2", "no3", "tds", "cond"})]
        lineA == [id |-> uid(n + 2), name |-> JStr("Endler - Japan Blue"), code |-> JStr("JB-01"),
                  traits |-> JArr(<<JStr("Japan Blue"), JStr("Endler")>>),
                  notes |-> JStr("Stamm stabil"), archived |-> JBool(FALSE)]
        attemptA == [id |-> uid(n + 3), name |-> JStr("Ansatz 2025-01 (A)"), lineId |-> lineA.id,
                     tankIds |-> JArr(<<tankA.id, tankB.id>>), startDate |-> SeedT0, endDate |-> JStr(""),
                     goal |-> JStr("Farbintensitaet"), notes |-> JStr("Becken 01 Zucht, Becken 02 Aufzucht."),
                     active |-> JBool(TRUE), archived |-> JBool(FALSE)]
        groups == <<[id |-> uid(n + 4), attemptId |-> attemptA.id, name |-> JStr("Zuchtgruppe"),
                     tankId |-> tankA.id, maleCount |-> JNum(20), femaleCount |-> JNum(50),
                     notes |-> JStr("Hauptgruppe"), active |-> JBool(TRUE), archived |-> JBool(FALSE)],
                    [id |-> uid(n + 5), attemptId |-> attemptA.id, name |-> JStr("Jungfische"),
                     tankId |-> tankB.id, maleCount |-> JNum(0), femaleCount |-> JNum(0),
                     notes |-> JStr("Batch 1"), active |-> JBool(TRUE), archived |-> JBool(FALSE)]>>
        limits == [makeDefaultLimits EXCEPT
                     !.temp = [min |-> JNum(220), max |-> JNum(280)],
                     !.ph = [min |-> JNum(65), max |-> JNum(78)],
                     !.no2 = [min |-> JNum(0), max |-> JNum(1)],
                     !.no3 = [min |-> JNum(0), max |-> JNum(300)]]
        water == <<[id |-> uid(n + 6), tankId |-> tankA.id, date |-> SeedT1, note |-> JStr(""),
                    temp |-> JNum(252), ph |-> JNum(71), gh |-> JNum(100), kh |-> JNum(60),
                    no2 |-> JNum(0), no3 |-> JNum(120)],
                   [id |-> uid(n + 7), tankId |-> tankB.id, date |-> SeedT1, note |-> JStr(""),
                    temp |-> JNum(260), ph |-> JNum(70), no2 |-> JNum(0), no3 |-> JNum(180),
                    tds |-> JNum(2800), cond |-> JNum(5200)]>>
        log == <<[id |-> uid(n + 8), attemptId |-> attemptA.id, tankId |-> tankA.id, date |-> SeedT1,
                  kind |-> JStr("Pflege"), title |-> JStr("Wasserwechsel 30%"), notes |-> JStr("leicht aufsalzen")],
                 [id |-> uid(n + 9), attemptId |-> attemptA.id, tankId |-> JStr(""), date |-> SeedT1,
                  kind |-> JStr("Beobachtung"), title |-> JStr("Faerbung sichtbar"),
                  notes |-> JStr("erste blaue Flanken")]>>
    IN  [settings |-> [breederName |-> JStr(""), maxPhotoMB |-> JNum(15), waterLimits |-> limits],
         tanks |-> JArr(<<tankA, tankB>>),
         lines |-> JArr(<<lineA>>),
         attempts |-> JArr(<<attemptA>>),
         groups |-> JArr(groups),
         water |-> JArr(water),
         log |-> JArr(log)]

-----------------------------------------------------------------------------
(* Main: the mutations of GuppyZuchtbuchOptionB, as functions of the document s *)

HasId(q, id) == \E i \in DOMAIN q : q[i].id = id

\* an upsert that prepends the record also when one of its id is there
upsertPrepending(q, e) == Cons(e, q)

\* exists ? list.map(x => x.id === e.id ? { ...x, ...e } : x) : [e, ...list]
upsertInto(q, e) ==
    IF HasId(q, e.id)
    THEN [i \in DOMAIN q |-> IF q[i].id = e.id THEN Spread(q[i], e) ELSE q[i]]
    ELSE Cons(e, q)

upsertTank(s, tank) == [s EXCEPT !.tanks = JArr(upsertInto(s.tanks.arr, tank))]

\* detachTank without its final filter: attempts left without a tank stay
detachTankKeepingEmpty(q, id) ==
    [i \in DOMAIN q |-> With(q[i], "tankIds", JArr(Without(q[i].tankIds.arr, id)))]

\* s.attempts.map(a => ({ ...a, tankIds: a.tankIds.filter(x => x !== id) })).filter(a => a.tankIds.length > 0)
detachTank(q, id) ==
    SelectSeq([i \in DOMAIN q |-> With(q[i], "tankIds", JArr(Without(q[i].tankIds.arr, id)))],
              LAMBDA a: Len(a.tankIds.arr) > 0)

\* removeTank without the filter of water: the tank's measurements stay
removeTankKeepingWater(s, id) ==
    [s EXCEPT !.tanks = JArr(SelectSeq(s.tanks.arr, LAMBDA t: t.id # id)),
              !.attempts = JArr(detachTank(s.attempts.arr, id)),
              !.groups = JArr(SelectSeq(s.groups.arr, LAMBDA g: g.tankId # id)),
              !.log = JArr(SelectSeq(s.log.arr, LAMBDA e: e.tankId # id))]

\* removeTank taking the log entries of no tank along with the tank's
removeTankWithGeneralLog(s, id) ==
    [s EXCEPT !.tanks = JArr(SelectSeq(s.tanks.arr, LAMBDA t: t.id # id)),
              !.attempts = JArr(detachTank(s.attempts.arr, id)),
              !.groups = JArr(SelectSeq(s.groups.arr, LAMBDA g: g.tankId # id)),
              !.water = JArr(SelectSeq(s.water.arr, LAMBDA w: w.tankId # id)),
              !.log = JArr(SelectSeq(s.log.arr, LAMBDA e: e.tankId \notin {id, JStr("")}))]

\* removeTank (lines 1510-1520)
removeTank(s, id) ==
    [s EXCEPT !.tanks = JArr(SelectSeq(s.tanks.arr, LAMBDA t: t.id # id)),
              !.attempts = JArr(detachTank(s.attempts.arr, id)),
              !.groups = JArr(SelectSeq(s.groups.arr, LAMBDA g: g.tankId # id)),
              !.water = JArr(SelectSeq(s.water.arr, LAMBDA w: w.tankId # id)),
              !.log = JArr(SelectSeq(s.log.arr, LAMBDA e: e.tankId # id))]

upsertAttempt(s, a) == [s EXCEPT !.attempts = JArr(upsertInto(s.attempts.arr, a))]

\* removeAttempt without the filter of log: the attempt's entries stay
removeAttemptKeepingLog(s, id) ==
    [s EXCEPT !.attempts = JArr(SelectSeq(s.attempts.arr, LAMBDA a: a.id # id)),
              !.groups = JArr(SelectSeq(s.groups.arr, LAMBDA g: g.attemptId # id))]

\* removeAttempt that returns the log entries it keeps back to front
removeAttemptReversingLog(s, id) ==
    LET kept == SelectSeq(s.log.arr, LAMBDA e: e.attemptId # id)
    IN  [s EXCEPT !.attempts = JArr(SelectSeq(s.attempts.arr, LAMBDA a: a.id # id)),
                  !.groups = JArr(SelectSeq(s.groups.arr, LAMBDA g: g.attemptId # id)),
                  !.log = JArr([i \in DOMAIN kept |-> kept[Len(kept) + 1 - i]])]

\* removeAttempt (lines 1530-1537)
removeAttempt(s, id) ==
    [s EXCEPT !.attempts = JArr(SelectSeq(s.attempts.arr, LAMBDA a: a.id # id)),
              !.groups = JArr(SelectSeq(s.groups.arr, LAMBDA g: g.attemptId # id)),
              !.log = JArr(SelectSeq(s.log.arr, LAMBDA e: e.attemptId # id))]

upsertGroup(s, g) == [s EXCEPT !.groups = JArr(Cons(g, s.groups.arr))]
removeGroup(s, id) == [s EXCEPT !.groups = JArr(SelectSeq(s.groups.arr, LAMBDA g: g.id # id))]

\* entry has no id; addWater and addLog give it uid()
addWater(s, entry, id) == [s EXCEPT !.water = JArr(Cons(With(entry, "id", id), s.water.arr))]
removeWater(s, id) == [s EXCEPT !.water = JArr(SelectSeq(s.water.arr, LAMBDA w: w.id # id))]

addLog(s, entry, id) == [s EXCEPT !.log = JArr(Cons(With(entry, "id", id), s.log.arr))]
removeLog(s, id) == [s EXCEPT !.log = JArr(SelectSeq(s.log.arr, LAMBDA e: e.id # id))]

\* TanksTab's setTanks(prev => prev.map(x => x.id === id ? { ...x, active: v } : x))
setTankActive(s, id, v) ==
    [s EXCEPT !.tanks = JArr([i \in DOMAIN s.tanks.arr |->
        IF s.tanks.arr[i].id = id THEN With(s.tanks.arr[i], "active", JBool(v)) ELSE s.tanks.arr[i]])]

\* SettingsTab's setSettings(s => ({ ...s, breederName: v }))
setBreederName(s, v) == [s EXCEPT !.settings = With(s.settings, "breederName", v)]

-----------------------------------------------------------------------------
(* String(v) and Number(v), for the values the model stores *)

\* a number held in tenths, printed as JavaScript prints it
DecStr(n) ==
    LET a == IF n < 0 THEN -n ELSE n
        body == IF a % 10 = 0 THEN ToString(a \div 10)
                ELSE ToString(a \div 10) \o "." \o ToString(a % 10)
    IN  IF n < 0 THEN "-" \o body ELSE body

\* String(v)
ToStr(v) ==
    IF IsObj(v) THEN JStr("[object Object]")
    ELSE CASE v.j = "str" -> v
           [] v.j = "num" -> JStr(IF IsFinite(v) THEN DecStr(v.num) ELSE IF v = NaN THEN "NaN" ELSE "Infinity")
           [] v.j = "bool" -> JStr(IF v.bool THEN "true" ELSE "false")
           [] v.j = "null" -> JStr("null")
           [] v.j = "undef" -> JStr("undefined")
           [] v.j = "arr" -> JStr(IF v.arr = <<>> THEN "" ELSE "[array]")

\* the texts of the model that Number() reads as a finite number (in tenths)
NumericTexts == [t \in {"", "0", "1", "3", "7", "12", "30", "54", "7.5", " 7 ", "-3", "2.5"} |->
    CASE t = "" -> 0 [] t = "0" -> 0 [] t = "1" -> 10 [] t = "3" -> 30 [] t = "7" -> 70
      [] t = "12" -> 120 [] t = "30" -> 300 [] t = "54" -> 540 [] t = "7.5" -> 75 [] t = " 7 " -> 70
      [] t = "-3" -> -30 [] t = "2.5" -> 25]
\* the texts of the model that Number() reads as Infinity; every other text is NaN
InfiniteTexts == {"1e999", "Infinity"}

\* Number(v)
NumberOf(v) ==
    IF IsObj(v) THEN NaN
    ELSE CASE v.j = "num" -> v
           [] v.j = "str" -> IF v.str \in DOMAIN NumericTexts THEN JNum(NumericTexts[v.str])
                            ELSE IF v.str \in InfiniteTexts THEN Infinity ELSE NaN
           [] v.j = "bool" -> JNum(IF v.bool THEN 10 ELSE 0)
           [] v.j = "null" -> JNum(0)
           [] v.j = "undef" -> NaN
           [] v.j = "arr" -> IF v.arr = <<>> THEN JNum(0) ELSE NaN

-----------------------------------------------------------------------------
(* The persisted slot *)

\* localStorage holds no item under STORAGE_KEY
Absent == [k |-> "absent"]
\* the item is the empty string
EmptyText == [k |-> "empty"]
\* the item is a text JSON.parse rejects
Garbage == [k |-> "garbage"]
\* the item is the JSON text of the value v
JsonText(v) == [k |-> "json", v |-> v]

RECURSIVE Jsonable(_)
\* the value JSON.parse(JSON.stringify(v)) of a value v that is not undefined: properties that
\* are undefined are dropped, NaN and Infinity become null, undefined in an array becomes null
Jsonable(v) ==
    IF IsObj(v) THEN [f \in {g \in DOMAIN v : v[g] # Undefined} |-> Jsonable(v[f])]
    ELSE IF v.j = "arr" THEN JArr([i \in DOMAIN v.arr |-> Jsonable(v.arr[i])])
    ELSE IF v.j = "undef" \/ (v.j = "num" /\ ~IsFinite(v)) THEN JNull
    ELSE v

\* JSON.stringify(v) as the slot item it makes
Stringify(v) == JsonText(Jsonable(v))

EmptyObj == [f \in {} |-> JNull]

\* lines 246-258: waterLimits from settingsIn
loadLimits(settingsIn) ==
    LET wl == Get(settingsIn, "waterLimits")
        incoming == IF Truthy(wl) /\ TypeofObject(wl) THEN wl ELSE JNull
    IN  [k \in ParamKeys |->
            LET x == Get(incoming, k)
            IN  IF Truthy(x) /\ TypeofObject(x)
                THEN [min |-> IF IsNum(Get(x, "min")) THEN Get(x, "min") ELSE JNull,
                      max |-> IF IsNum(Get(x, "max")) THEN Get(x, "max") ELSE JNull]
                ELSE makeDefaultLimits[k]]

\* normalizeTank without the placeholder for the name
normalizeTankUnnamed(t, n) ==
    LET tw == IF Truthy(t) THEN Get(t, "waterParams") ELSE t
        inc == IF Truthy(tw) THEN tw ELSE EmptyObj
        noId == ~Truthy(Get(t, "id"))
        vol == Get(t, "volumeL")
    IN  [tank |-> [id |-> ToStr(IF noId THEN uid(n) ELSE Get(t, "id")),
                   name |-> ToStr(Get(t, "name")),
                   volumeL |-> IF IsNum(vol) THEN vol ELSE NumberOf(OrElse(vol, JNum(0))),
                   location |-> ToStr(OrElse(Get(t, "location"), JStr(""))),
                   purpose |-> ToStr(OrElse(Get(t, "purpose"), JStr(""))),
                   active |-> JBool(Get(t, "active") # JBool(FALSE)),
                   waterParams |-> [k \in ParamKeys |->
                       IF IsBool(Get(inc, k)) THEN Get(inc, k) ELSE JBool(FALSE)]],
         n |-> IF noId THEN n + 1 ELSE n]

\* normalizeTank(t), where the uid() it may call is the n-th; .n is the next uid() number
normalizeTank(t, n) ==
    LET tw == IF Truthy(t) THEN Get(t, "waterParams") ELSE t
        inc == IF Truthy(tw) THEN tw ELSE EmptyObj
        noId == ~Truthy(Get(t, "id"))
        vol == Get(t, "volumeL")
    IN  [tank |-> [id |-> ToStr(IF noId THEN uid(n) ELSE Get(t, "id")),
                   name |-> ToStr(OrElse(Get(t, "name"), JStr("Becken"))),
                   volumeL |-> IF IsNum(vol) THEN vol ELSE NumberOf(OrElse(vol, JNum(0))),
                   location |-> ToStr(OrElse(Get(t, "location"), JStr(""))),
                   purpose |-> ToStr(OrElse(Get(t, "purpose"), JStr(""))),
                   active |-> JBool(Get(t, "active") # JBool(FALSE)),
                   waterParams |-> [k \in ParamKeys |->
                       IF IsBool(Get(inc, k)) THEN Get(inc, k) ELSE JBool(FALSE)]],
         n |-> IF noId THEN n + 1 ELSE n]

RECURSIVE normalizeTanks(_, _)
\* parsed.tanks.map(normalizeTank)
normalizeTanks(q, n) ==
    IF q = <<>> THEN [tanks |-> <<>>, n |-> n]
    ELSE LET h == normalizeTank(Head(q), n)
             r == normalizeTanks(Tail(q), h.n)
         IN  [tanks |-> Cons(h.tank, r.tanks), n |-> r.n]

\* the collection parsed.f taken back to front
arrayOrReversed(parsed, f) ==
    IF IsArr(Get(parsed, f))
    THEN LET q == Get(parsed, f).arr IN JArr([i \in DOMAIN q |-> q[Len(q) + 1 - i]])
    ELSE JArr(<<>>)

\* Array.isArray(parsed.f) ? parsed.f : []
arrayOr(parsed, f) == IF IsArr(Get(parsed, f)) THEN Get(parsed, f) ELSE JArr(<<>>)

\* the try block of loadState after the !raw test (lines 243-289): .threw says it raised
loadTry(item, n) ==
    IF item.k = "garbage" THEN [threw |-> TRUE, doc |-> Undefined, n |-> n]
    ELSE LET parsed == item.v
             settingsIn == OrElse(IF Truthy(parsed) THEN Get(parsed, "settings") ELSE parsed, EmptyObj)
             tanks == normalizeTanks(arrayOr(parsed, "tanks").arr, n)
         IN  IF IsNullish(parsed) THEN [threw |-> TRUE, doc |-> Undefined, n |-> n]
             ELSE [threw |-> FALSE,
                   doc |-> [settings |->
                               [breederName |-> IF IsStr(Get(settingsIn, "breederName"))
                                                THEN Get(settingsIn, "breederName") ELSE JStr(""),
                                maxPhotoMB |-> IF IsNum(Get(settingsIn, "maxPhotoMB"))
                                               THEN Get(settingsIn, "maxPhotoMB") ELSE JNum(15),
                                waterLimits |-> loadLimits(settingsIn)],
                            tanks |-> JArr(tanks.tanks),
                            lines |-> arrayOr(parsed, "lines"),
                            attempts |-> arrayOr(parsed, "attempts"),
                            groups |-> arrayOr(parsed, "groups"),
                            water |-> arrayOr(parsed, "water"),
                            log |-> arrayOr(parsed, "log")],
                   n |-> tanks.n]

\* loadState without its catch: what the try block raises reaches the caller
loadCatchRethrowing(r, n) == r

\* the catch of loadState (lines 290-292)
loadCatch(r, n) == IF r.threw THEN [threw |-> FALSE, doc |-> seed(n), n |-> n + SeedIds] ELSE r

\* loadState() on the slot content item, with uid() calls numbered from n
loadState(item, n) ==
    IF item.k \in {"absent", "empty"}
    THEN [threw |-> FALSE, doc |-> seed(n), n |-> n + SeedIds]
    ELSE loadCatch(loadTry(item, n), n)

\* the try block of saveState (line 297) with the slot holding item: setItem writes the text of
\* s when ok, and raises without writing (quota, storage unavailable) when not
saveTry(item, s, ok) ==
    IF ok THEN [threw |-> FALSE, item |-> Stringify(s)] ELSE [threw |-> TRUE, item |-> item]

\* saveState without its catch: what setItem raises reaches the caller
saveCatchRethrowing(r) == r

\* the catch of saveState (lines 298-300)
saveCatch(r) == [threw |-> FALSE, item |-> r.item]

\* saveState(s) with the slot holding item: .item is what the slot holds after it
saveStateOn(item, s, ok) == saveCatch(saveTry(item, s, ok))

\* a save that writes the document without its log
saveStateWithoutLog(s) == Stringify([s EXCEPT !.log = JArr(<<>>)])

\* saveState(s) when localStorage.setItem succeeds
saveState(s) == saveStateOn(Absent, s, TRUE).item

-----------------------------------------------------------------------------
(* Inputs the user can give (bounded) *)

TabKeys == {"dashboard", "zuchtjournal", "tanks", "water", "settings"}
\* texts typed into a name field, after trim(): the save buttons are disabled for ""
NameTexts == {"Neu"}
\* texts typed into the number fields of the tank and group forms
CountTexts == {"1"}
\* what the user ticks in the tank form's parameter checkboxes
ParamChoices == {ParamsOn({"temp", "ph", "no2", "no3"}), ParamsOn({})}
\* the dates picked in the date fields
DateTexts == {Today}
\* texts typed into a water value field
WaterTexts == {"7,5"}
BreederTexts == {"Andre"}

-----------------------------------------------------------------------------
(* What the components compute from their props and state *)

NoId == JStr("")
Ids(q) == {q[i].id : i \in DOMAIN q}
\* list.find(x => x.id === id) || null
Find(q, id) == IF HasId(q, id) THEN q[CHOOSE i \in DOMAIN q : q[i].id = id /\ \A k \in 1..(i - 1) : q[k].id # id]
               ELSE JNull
\* list[0] ? list[0].id : ""
FirstId(q) == IF q = <<>> THEN NoId ELSE q[1].id
\* arr[0] || ""
FirstOr(q) == IF q = <<>> THEN NoId ELSE OrElse(q[1], NoId)

\* ZuchtjournalTab: selected (line 712)
selectedOf(s, sel) == IF Truthy(sel) THEN Find(s.attempts.arr, sel) ELSE JNull

\* ZuchtjournalTab: the effect on [selectedId, props.attempts] (lines 707-710)
fixSelected(s, sel) ==
    IF s.attempts.arr # <<>> /\ (~Truthy(sel) \/ ~HasId(s.attempts.arr, sel))
    THEN s.attempts.arr[1].id ELSE sel

\* ZuchtjournalTab: the effect on [selectedId] (lines 756-759), given the previous gTankId
fixGTank(s, sel, g) ==
    LET a == selectedOf(s, sel) IN IF a = JNull THEN g ELSE FirstOr(a.tankIds.arr)

\* ZuchtjournalTab: groupsForAttempt (line 739)
groupsForAttempt(s, sel) ==
    LET a == selectedOf(s, sel)
    IN  IF a = JNull THEN <<>>
        ELSE SelectSeq(s.groups.arr, LAMBDA g: g.attemptId = a.id /\ ~Truthy(g.archived))

\* ZuchtjournalTab: the entries logForAttempt lists (lines 741-747), in the order of the log
logForAttempt(s, sel) ==
    LET a == selectedOf(s, sel)
    IN  IF a = JNull THEN <<>> ELSE SelectSeq(s.log.arr, LAMBDA e: e.attemptId = a.id)

\* WaterTab: the effect on [tankId, props.tanks] (lines 1141-1144)
fixWaterTank(s, t) ==
    IF s.tanks.arr # <<>> /\ (~Truthy(t) \/ ~HasId(s.tanks.arr, t)) THEN s.tanks.arr[1].id ELSE t

\* activeParams without the line that falls back to temp
activeParamsWithoutFallback(s, t) ==
    LET tank == Find(s.tanks.arr, t)
        wp == IF tank = JNull THEN makeAllParams(TRUE) ELSE tank.waterParams
    IN  SelectSeq(ALL_PARAM_KEYS, LAMBDA k: Truthy(wp[k]))

\* WaterTab: activeParams (lines 1148-1156)
activeParams(s, t) ==
    LET tank == Find(s.tanks.arr, t)
        wp == IF tank = JNull THEN makeAllParams(TRUE) ELSE tank.waterParams
        list == SelectSeq(ALL_PARAM_KEYS, LAMBDA k: Truthy(wp[k]))
    IN  IF list = <<>> THEN <<"temp">> ELSE list

\* s.trim().replace(",", "."), for the texts of the model
TrimComma(t) == CASE t = " 7 " -> "7" [] t = "7,5" -> "7.5" [] t = " " -> "" [] OTHER -> t

\* parseNumOrNull without its isFinite test
parseNumUnchecked(t) == IF TrimComma(t) = "" THEN JNull ELSE NumberOf(JStr(TrimComma(t)))

\* parseNumOrNull (lines 65-70)
parseNumOrNull(t) ==
    LET u == TrimComma(t)
        n == NumberOf(JStr(u))
    IN  IF u = "" THEN JNull ELSE IF IsFinite(n) THEN n ELSE JNull

\* a < b on numbers: false when either is NaN
Less(a, b) ==
    /\ a # NaN /\ b # NaN /\ a # Infinity
    /\ b = Infinity \/ a.num < b.num

\* inRange with the bounds counted as out of range
inRangeExclusive(v, l) ==
    IF IsNullish(v) THEN "na"
    ELSE IF ~IsNullish(l.min) /\ ~Less(l.min, v) THEN "low"
    ELSE IF ~IsNullish(l.max) /\ ~Less(v, l.max) THEN "high"
    ELSE "ok"

\* inRange (lines 72-77)
inRange(v, l) ==
    IF IsNullish(v) THEN "na"
    ELSE IF ~IsNullish(l.min) /\ Less(v, l.min) THEN "low"
    ELSE IF ~IsNullish(l.max) /\ Less(l.max, v) THEN "high"
    ELSE "ok"

-----------------------------------------------------------------------------
(* The session: one action per event handler, with the effects that follow its render *)

Op(name, id) == [op |-> name, id |-> id]

\* a handler that calls setState: the save effect is scheduled by the render that follows
Mutate(s2, name, id) ==
    /\ ops < MaxOps
    /\ ops' = ops + 1
    /\ state' = s2
    /\ dirty' = TRUE
    /\ prev' = state
    /\ lastOp' = Op(name, id)

\* a handler that changes component state only
Local ==
    /\ ops' = ops
    /\ prev' = state
    /\ lastOp' = Op("none", NoId)
    /\ UNCHANGED <<state, dirty>>

\* handlers run between renders: the effect of the previous render has run.  A run ends with
\* its last change of the document and the save that follows it.  While an import awaits the
\* text of its file the page takes events; once it has called reload() it takes none
Ready == ~dirty /\ pc \in {"idle", "reading"} /\ ops < MaxOps

\* the tab buttons (line 1588): the tab left is unmounted, the tab entered is mounted
SetTab(t) ==
    /\ Ready
    /\ t # tab
    /\ tab' = t
    /\ selectedId' = IF t = "zuchtjournal" THEN FirstId(state.attempts.arr) ELSE NoId
    /\ gTankId' = IF t = "zuchtjournal" THEN fixGTank(state, FirstId(state.attempts.arr), NoId) ELSE NoId
    /\ wTankId' = IF t = "water" THEN FirstId(state.tanks.arr) ELSE NoId
    /\ editOpen' = FALSE /\ edit' = JNull /\ lTankId' = NoId
    /\ tOpen' = FALSE /\ tEditing' = JNull
    /\ Local
    /\ UNCHANGED <<slot, nextId, importVars, loadVars, rangeVars, dashVars>>

\* useEffect(() => saveState(state), [state]) (lines 1485-1487)
SaveEffect ==
    /\ dirty
    /\ pc \in {"idle", "reading", "reloading"}
    /\ slot' = saveState(state)
    /\ dirty' = FALSE
    /\ prev' = state
    /\ lastOp' = Op("none", NoId)
    /\ UNCHANGED <<state, ops, nextId, uiVars, importVars, loadVars, rangeVars, dashVars>>

(* ZuchtjournalTab *)

\* setEditOpen(false).  edit is read only while the editor is open, and every opening sets
\* it (lines 779, 892), so the value it keeps while the editor is closed is not held
AttemptEditorClosed == editOpen' = FALSE /\ edit' = JNull

\* the attempt buttons of the list (line 867)
SelectAttempt(id) ==
    /\ Ready /\ tab = "zuchtjournal"
    /\ \E i \in DOMAIN state.attempts.arr :
          state.attempts.arr[i].id = id /\ ~Truthy(state.attempts.arr[i].archived)
    /\ id # selectedId
    /\ selectedId' = id
    /\ gTankId' = fixGTank(state, id, gTankId)
    /\ lTankId' = NoId
    /\ Local
    /\ UNCHANGED <<slot, nextId, tab, editOpen, edit, tOpen, tEditing, wTankId, importVars, loadVars, rangeVars, dashVars>>

\* "+ Ansatz" (line 779)
OpenNewAttempt ==
    /\ Ready /\ tab = "zuchtjournal"
    /\ edit' = JNull
    /\ editOpen' = TRUE
    /\ Local
    /\ UNCHANGED <<slot, nextId, tab, selectedId, gTankId, lTankId, tOpen, tEditing, wTankId, importVars, loadVars, rangeVars, dashVars>>

\* "Bearbeiten" (line 892)
OpenEditAttempt ==
    /\ Ready /\ tab = "zuchtjournal"
    /\ selectedOf(state, selectedId) # JNull
    /\ edit' = selectedOf(state, selectedId)
    /\ editOpen' = TRUE
    /\ Local
    /\ UNCHANGED <<slot, nextId, tab, selectedId, gTankId, lTankId, tOpen, tEditing, wTankId, importVars, loadVars, rangeVars, dashVars>>

\* "Schliessen" (line 827)
CloseAttemptEditor ==
    /\ Ready /\ tab = "zuchtjournal" /\ editOpen
    /\ AttemptEditorClosed
    /\ Local
    /\ UNCHANGED <<slot, nextId, tab, selectedId, gTankId, lTankId, tOpen, tEditing, wTankId, importVars, loadVars, rangeVars, dashVars>>

\* setATanks of the prefill effect (line 729), for the attempt e the editor was opened on
prefillTanks(s, e) ==
    IF e = JNull
    THEN SubSeq([i \in DOMAIN s.tanks.arr |-> s.tanks.arr[i].id], 1,
                IF s.tanks.arr = <<>> THEN 0 ELSE 1)
    ELSE e.tankIds.arr

\* toggleTank that ticks a tank again instead of unticking it
toggleTankAppending(q, id) == IF Len(q) < 3 THEN Append(q, id) ELSE q

\* toggleTank (lines 735-737): the updater of aTanks
toggleTank(q, id) == IF Includes(q, id) THEN Without(q, id) ELSE Append(q, id)

RECURSIVE tickedFrom(_, _)
\* the values of aTanks that clicks on the checkboxes of the tanks ids make of those in S
tickedFrom(S, ids) ==
    LET T == S \cup {toggleTank(q, id) : q \in S, id \in ids}
    IN  IF T = S THEN S ELSE tickedFrom(T, ids)

\* the values aTanks can have when the save button is clicked: the form's fields are inputs of
\* the save, and this one is what toggleTank makes of the prefill (the tab's tanks do not change
\* while the editor is open)
TickedTanks(s, e) == tickedFrom({prefillTanks(s, e)}, Ids(s.tanks.arr))

\* the attempt the save button builds (lines 833-844)
attemptOfForm(name, lineId, tanks, start, id) ==
    [id |-> IF edit = JNull THEN id ELSE edit.id,
     name |-> JStr(name),
     lineId |-> lineId,
     tankIds |-> JArr(tanks),
     startDate |-> OrElse(start, Today),
     endDate |-> IF edit = JNull THEN JStr("") ELSE edit.endDate,
     goal |-> IF edit = JNull THEN JStr("") ELSE edit.goal,
     notes |-> IF edit = JNull THEN JStr("") ELSE edit.notes,
     active |-> IF edit = JNull THEN JBool(TRUE) ELSE edit.active,
     archived |-> IF edit = JNull THEN JBool(FALSE) ELSE edit.archived]

\* the save button enabled although no tank is ticked
attemptSaveEnabledWithoutTank(name, lineId, tanks) == name # "" /\ Truthy(lineId)

\* the negation of disabled={!aName.trim() || !aLineId || !aTanks.length} (line 831)
attemptSaveEnabled(name, lineId, tanks) == name # "" /\ Truthy(lineId) /\ Len(tanks) > 0

\* "Speichern" of the attempt editor (lines 830-851)
SaveAttempt(name, lineId, start) ==
    /\ Ready /\ tab = "zuchtjournal" /\ editOpen
    /\ \E tanks \in TickedTanks(state, edit) :
          /\ attemptSaveEnabled(name, lineId, tanks)
          /\ LET a == attemptOfForm(name, lineId, tanks, start, uid(nextId))
                 s2 == upsertAttempt(state, a)
             IN  /\ Mutate(s2, "upsertAttempt", a.id)
                 /\ selectedId' = fixSelected(s2, a.id)
                 /\ gTankId' = IF a.id # selectedId THEN fixGTank(s2, a.id, gTankId) ELSE gTankId
                 /\ lTankId' = IF a.id # selectedId THEN NoId ELSE lTankId
    /\ nextId' = IF edit = JNull THEN nextId + 1 ELSE nextId
    /\ AttemptEditorClosed
    /\ UNCHANGED <<slot, tab, tOpen, tEditing, wTankId, importVars, loadVars, rangeVars, dashVars>>

\* removeAttempt (lines 1530-1537), the prop ZuchtjournalTab is given, with the id of an attempt
RemoveAttempt(id) ==
    /\ Ready /\ tab = "zuchtjournal"
    /\ id \in Ids(state.attempts.arr)
    /\ LET s2 == removeAttempt(state, id)
           sel == fixSelected(s2, selectedId)
       IN  /\ Mutate(s2, "removeAttempt", id)
           /\ selectedId' = sel
           /\ gTankId' = IF sel # selectedId THEN fixGTank(s2, sel, gTankId) ELSE gTankId
           /\ lTankId' = IF sel # selectedId THEN NoId ELSE lTankId
    /\ UNCHANGED <<slot, nextId, tab, editOpen, edit, tOpen, tEditing, wTankId, importVars, loadVars, rangeVars, dashVars>>

\* the tank select of the group form (line 949): its options are the selected attempt's tanks
SetGTank(id) ==
    /\ Ready /\ tab = "zuchtjournal"
    /\ selectedOf(state, selectedId) # JNull
    /\ Includes(selectedOf(state, selectedId).tankIds.arr, id)
    /\ id # gTankId
    /\ gTankId' = id
    /\ Local
    /\ UNCHANGED <<slot, nextId, tab, selectedId, editOpen, edit, lTankId, tOpen, tEditing, wTankId, importVars, loadVars, rangeVars, dashVars>>

\* "Speichern" of the group form (lines 968-986)
AddGroup(name, m, f) ==
    /\ Ready /\ tab = "zuchtjournal"
    /\ selectedOf(state, selectedId) # JNull
    /\ Truthy(gTankId)
    /\ Mutate(upsertGroup(state, [id |-> uid(nextId),
                                  attemptId |-> selectedOf(state, selectedId).id,
                                  name |-> JStr(IF name = "" THEN "Gruppe" ELSE name),
                                  tankId |-> gTankId,
                                  maleCount |-> NumberOf(OrElse(JStr(m), JNum(0))),
                                  femaleCount |-> NumberOf(OrElse(JStr(f), JNum(0))),
                                  notes |-> JStr(""),
                                  active |-> JBool(TRUE),
                                  archived |-> JBool(FALSE)]),
              "upsertGroup", uid(nextId))
    /\ nextId' = nextId + 1
    /\ UNCHANGED <<slot, uiVars, importVars, loadVars, rangeVars, dashVars>>

\* the x of a listed group (line 934)
RemoveGroup(id) ==
    /\ Ready /\ tab = "zuchtjournal"
    /\ id \in Ids(groupsForAttempt(state, selectedId))
    /\ Mutate(removeGroup(state, id), "removeGroup", id)
    /\ UNCHANGED <<slot, nextId, uiVars, importVars, loadVars, rangeVars, dashVars>>

\* the tank select of the log form (lines 1031-1038)
SetLTank(id) ==
    /\ Ready /\ tab = "zuchtjournal"
    /\ selectedOf(state, selectedId) # JNull
    /\ id = NoId \/ Includes(selectedOf(state, selectedId).tankIds.arr, id)
    /\ id # lTankId
    /\ lTankId' = id
    /\ Local
    /\ UNCHANGED <<slot, nextId, tab, selectedId, editOpen, edit, gTankId, tOpen, tEditing, wTankId, importVars, loadVars, rangeVars, dashVars>>

\* "Speichern" of the log form (lines 1041-1055)
AddLog(date) ==
    /\ Ready /\ tab = "zuchtjournal"
    /\ selectedOf(state, selectedId) # JNull
    /\ Mutate(addLog(state, [attemptId |-> selectedOf(state, selectedId).id,
                             tankId |-> lTankId,
                             date |-> OrElse(date, Today),
                             kind |-> JStr("Pflege"),
                             title |-> JStr("Wasserwechsel"),
                             notes |-> JStr("")], uid(nextId)),
              "addLog", uid(nextId))
    /\ nextId' = nextId + 1
    /\ UNCHANGED <<slot, uiVars, importVars, loadVars, rangeVars, dashVars>>

\* the x of a listed log entry (line 1007)
RemoveLog(id) ==
    /\ Ready /\ tab = "zuchtjournal"
    /\ id \in Ids(logForAttempt(state, selectedId))
    /\ Mutate(removeLog(state, id), "removeLog", id)
    /\ UNCHANGED <<slot, nextId, uiVars, importVars, loadVars, rangeVars, dashVars>>

(* TanksTab *)

\* setOpen(false).  editing is read only while the editor is open, and every opening sets it
\* (lines 491, 568), so the value it keeps while the editor is closed is not held
TankEditorClosed == tOpen' = FALSE /\ tEditing' = JNull

\* "+ Becken" (line 491)
OpenNewTank ==
    /\ Ready /\ tab = "tanks"
    /\ tEditing' = JNull
    /\ tOpen' = TRUE
    /\ Local
    /\ UNCHANGED <<slot, nextId, tab, selectedId, editOpen, edit, gTankId, lTankId, wTankId, importVars, loadVars, rangeVars, dashVars>>

\* "Bearbeiten" of a tank card (line 568): editing is the tank object as it is now
OpenEditTank(id) ==
    /\ Ready /\ tab = "tanks"
    /\ id \in Ids(state.tanks.arr)
    /\ tEditing' = Find(state.tanks.arr, id)
    /\ tOpen' = TRUE
    /\ Local
    /\ UNCHANGED <<slot, nextId, tab, selectedId, editOpen, edit, gTankId, lTankId, wTankId, importVars, loadVars, rangeVars, dashVars>>

\* "Schliessen" (line 532)
CloseTankEditor ==
    /\ Ready /\ tab = "tanks" /\ tOpen
    /\ TankEditorClosed
    /\ Local
    /\ UNCHANGED <<slot, nextId, tab, selectedId, editOpen, edit, gTankId, lTankId, wTankId, importVars, loadVars, rangeVars, dashVars>>

\* the tank the save button builds (lines 538-546)
tankOfForm(name, volumeText, params, id) ==
    [id |-> IF tEditing = JNull THEN id ELSE tEditing.id,
     name |-> JStr(name),
     volumeL |-> NumberOf(OrElse(JStr(volumeText), JNum(0))),
     location |-> IF tEditing = JNull THEN JStr("") ELSE tEditing.location,
     purpose |-> IF tEditing = JNull THEN JStr("") ELSE tEditing.purpose,
     active |-> IF tEditing = JNull THEN JBool(TRUE) ELSE tEditing.active,
     waterParams |-> params]

\* "Speichern" of the tank editor (lines 535-552): disabled without a name
SaveTank(name, volumeText, params) ==
    /\ Ready /\ tab = "tanks" /\ tOpen
    /\ name # ""
    /\ LET t == tankOfForm(name, volumeText, params, uid(nextId))
       IN  Mutate(upsertTank(state, t), "upsertTank", t.id)
    /\ nextId' = IF tEditing = JNull THEN nextId + 1 ELSE nextId
    /\ TankEditorClosed
    /\ UNCHANGED <<slot, tab, selectedId, editOpen, edit, gTankId, lTankId, wTankId, importVars, loadVars, rangeVars, dashVars>>

\* the TogglePill of a tank card (line 567)
ToggleTankActive(id) ==
    /\ Ready /\ tab = "tanks"
    /\ id \in Ids(state.tanks.arr)
    /\ Mutate(setTankActive(state, id, ~Truthy(Find(state.tanks.arr, id).active)), "setTanks", id)
    /\ UNCHANGED <<slot, nextId, uiVars, importVars, loadVars, rangeVars, dashVars>>

\* "Loeschen" of a tank card (line 571)
RemoveTank(id) ==
    /\ Ready /\ tab = "tanks"
    /\ id \in Ids(state.tanks.arr)
    /\ Mutate(removeTank(state, id), "removeTank", id)
    /\ UNCHANGED <<slot, nextId, uiVars, importVars, loadVars, rangeVars, dashVars>>

(* WaterTab *)

\* the tank select (line 1231)
SelectWaterTank(id) ==
    /\ Ready /\ tab = "water"
    /\ id \in Ids(state.tanks.arr)
    /\ id # wTankId
    /\ wTankId' = id
    /\ Local
    /\ UNCHANGED <<slot, nextId, tab, selectedId, editOpen, edit, gTankId, lTankId, tOpen, tEditing, importVars, loadVars, rangeVars, dashVars>>

\* the payload "Speichern" builds (lines 1293-1296): text typed into the first active
\* parameter's field, the other fields left empty
waterOfForm(s, tankId, date, text) ==
    LET act == activeParams(s, tankId)
        base == [tankId |-> tankId, date |-> OrElse(date, Today), note |-> JStr("")]
    IN  [k \in DOMAIN base \cup Range(act) |->
            IF k \in DOMAIN base THEN base[k]
            ELSE parseNumOrNull(IF k = act[1] THEN text ELSE "")]

\* "Speichern" of the water form (lines 1291-1302)
AddWater(date, text) ==
    /\ Ready /\ tab = "water"
    /\ Mutate(addWater(state, waterOfForm(state, wTankId, date, text), uid(nextId)), "addWater", uid(nextId))
    /\ nextId' = nextId + 1
    /\ UNCHANGED <<slot, uiVars, importVars, loadVars, rangeVars, dashVars>>

\* the x of a listed water entry (line 1341): the list shows the selected tank's entries
RemoveWater(id) ==
    /\ Ready /\ tab = "water"
    /\ \E i \in DOMAIN state.water.arr : state.water.arr[i].id = id /\ state.water.arr[i].tankId = wTankId
    /\ Mutate(removeWater(state, id), "removeWater", id)
    /\ UNCHANGED <<slot, nextId, uiVars, importVars, loadVars, rangeVars, dashVars>>

(* SettingsTab *)

\* the breeder name field (line 1369)
SetBreederName(text) ==
    /\ Ready /\ tab = "settings"
    /\ state.settings.breederName # JStr(text)
    /\ Mutate(setBreederName(state, JStr(text)), "setSettings", NoId)
    /\ UNCHANGED <<slot, nextId, uiVars, importVars, loadVars, rangeVars, dashVars>>

\* resetAll (lines 1563-1566), from "Alles zuruecksetzen" (line 1377)
ResetAll ==
    /\ Ready /\ tab = "settings"
    /\ slot' = Absent
    /\ Mutate(seed(nextId), "resetAll", NoId)
    /\ nextId' = nextId + SeedIds
    /\ UNCHANGED <<uiVars, importVars, loadVars, rangeVars, dashVars>>

-----------------------------------------------------------------------------
(* The session that starts with an empty localStorage *)

\* component state of a tab that is not mounted
UiInit ==
    /\ tab = "dashboard"
    /\ selectedId = NoId /\ editOpen = FALSE /\ edit = JNull
    /\ gTankId = NoId /\ lTankId = NoId
    /\ tOpen = FALSE /\ tEditing = JNull
    /\ wTankId = NoId

\* useState(() => loadState()) on item, then the first render, which schedules the save effect
Mount(item) ==
    /\ slot = item
    /\ state = loadState(item, 1).doc
    /\ nextId = loadState(item, 1).n
    /\ dirty = TRUE
    /\ prev = state
    /\ lastOp = Op("mount", NoId)
    /\ ops = 0
    /\ UiInit

\* DashboardTab has not rendered
DashIdle == dash = JNull

\* no call of inRange is under study
RangeIdle == value = JNull /\ lim = [min |-> JNull, max |-> JNull] /\ badge = ""

Init ==
    /\ Mount(Absent)
    /\ pc = "idle" /\ payload = Absent
    /\ raw = Absent /\ loaded = JNull
    /\ RangeIdle /\ DashIdle

JournalNext ==
    \/ \E id \in Ids(state.attempts.arr) : SelectAttempt(id)
    \/ OpenNewAttempt
    \/ OpenEditAttempt
    \/ CloseAttemptEditor
    \/ \E name \in NameTexts, lineId \in Ids(state.lines.arr), start \in DateTexts :
          SaveAttempt(name, lineId, start)
    \/ \E id \in Ids(state.attempts.arr) : RemoveAttempt(id)
    \/ \E id \in Ids(state.tanks.arr) : SetGTank(id)
    \/ \E name \in NameTexts, m \in CountTexts, f \in CountTexts : AddGroup(name, m, f)
    \/ \E id \in Ids(state.groups.arr) : RemoveGroup(id)
    \/ \E id \in Ids(state.tanks.arr) \cup {NoId} : SetLTank(id)
    \/ \E date \in DateTexts : AddLog(date)
    \/ \E id \in Ids(state.log.arr) : RemoveLog(id)

TanksNext ==
    \/ OpenNewTank
    \/ \E id \in Ids(state.tanks.arr) : OpenEditTank(id)
    \/ CloseTankEditor
    \/ \E name \in NameTexts, v \in CountTexts, params \in ParamChoices : SaveTank(name, v, params)
    \/ \E id \in Ids(state.tanks.arr) : ToggleTankActive(id)
    \/ \E id \in Ids(state.tanks.arr) : RemoveTank(id)

WaterNext ==
    \/ \E id \in Ids(state.tanks.arr) : SelectWaterTank(id)
    \/ \E date \in DateTexts, text \in WaterTexts : AddWater(date, text)
    \/ \E id \in Ids(state.water.arr) : RemoveWater(id)

SettingsNext ==
    \/ \E text \in BreederTexts : SetBreederName(text)
    \/ ResetAll

Next ==
    \/ \E t \in TabKeys : SetTab(t)
    \/ SaveEffect
    \/ JournalNext
    \/ TanksNext
    \/ WaterNext
    \/ SettingsNext

Spec == Init /\ [][Next]_vars

-----------------------------------------------------------------------------
(* Removal of tanks and attempts *)

\* the entries of a collection of the document d
Tanks(d) == Range(d.tanks.arr)
Attempts(d) == Range(d.attempts.arr)
Groups(d) == Range(d.groups.arr)
Water(d) == Range(d.water.arr)
Log(d) == Range(d.log.arr)

\* C1: after removeTank(T) no tank has id T, no attempt's tankIds contains T, no group, water
\* entry or log entry has tankId T; an attempt of the document before is absent when T was its
\* only tank and is present, with its other tanks, when it had another one
RemoveTankCascades ==
    lastOp.op = "removeTank" =>
        LET T == lastOp.id
        IN  /\ \A t \in Tanks(state) : t.id # T
            /\ \A a \in Attempts(state) : ~Includes(a.tankIds.arr, T)
            /\ \A g \in Groups(state) : g.tankId # T
            /\ \A w \in Water(state) : w.tankId # T
            /\ \A e \in Log(state) : e.tankId # T
            /\ \A a \in Attempts(prev) :
                  IF Range(a.tankIds.arr) \subseteq {T}
                  THEN ~HasId(state.attempts.arr, a.id)
                  ELSE \E b \in Attempts(state) :
                          b.id = a.id /\ b.tankIds.arr = Without(a.tankIds.arr, T)

\* removeTank has removed the last tank of an attempt, and the attempt with it
RemoveTankEmptiedAttempt ==
    /\ lastOp.op = "removeTank"
    /\ \E a \in Attempts(prev) : a.tankIds.arr = <<lastOp.id>> /\ ~HasId(state.attempts.arr, a.id)

\* C2: every attempt of the document has at least one tank in tankIds
AttemptsHaveTanks == \A a \in Attempts(state) : Len(a.tankIds.arr) > 0

\* an attempt made with the form has lost one of its two tanks to removeTank and is still there
FormAttemptLostTank ==
    /\ lastOp.op = "removeTank"
    /\ \E a \in Attempts(prev), b \in Attempts(state) :
          /\ a.id = b.id /\ a.name = JStr("Neu")
          /\ Len(a.tankIds.arr) = 2 /\ Len(b.tankIds.arr) = 1

\* C3: every group's attemptId and every log entry's attemptId is the id of an attempt of the
\* document
AttemptRefsPresent ==
    /\ \A g \in Groups(state) : HasId(state.attempts.arr, g.attemptId)
    /\ \A e \in Log(state) : HasId(state.attempts.arr, e.attemptId)

\* C4: after removeAttempt(A) no attempt has id A and no group or log entry has attemptId A
RemoveAttemptCascades ==
    lastOp.op = "removeAttempt" =>
        LET A == lastOp.id
        IN  /\ \A a \in Attempts(state) : a.id # A
            /\ \A g \in Groups(state) : g.attemptId # A
            /\ \A e \in Log(state) : e.attemptId # A

\* removeAttempt has removed an attempt that had groups and log entries
RemoveAttemptTookRecords ==
    /\ lastOp.op = "removeAttempt"
    /\ \E g \in Groups(prev) : g.attemptId = lastOp.id
    /\ \E e \in Log(prev) : e.attemptId = lastOp.id
    /\ Len(state.groups.arr) < Len(prev.groups.arr)
    /\ Len(state.log.arr) < Len(prev.log.arr)

\* the tank ids the records of the document d name ("" names no tank)
TanksNamed(d) ==
    (UNION {Range(a.tankIds.arr) : a \in Attempts(d)}
       \cup {g.tankId : g \in Groups(d)} \cup {w.tankId : w \in Water(d)}
       \cup {e.tankId : e \in Log(d)}) \ {NoId}

\* the document d lacks a tank that one of its records names: some tank is partly removed
TankPartlyRemoved(d) == \E T \in TanksNamed(d) : ~HasId(d.tanks.arr, T)

\* C6: removeTank and removeAttempt change the document in one step to the cascaded one: the
\* document in memory never lacks a tank that one of its records names, the step of
\* removeAttempt leaves no record of the attempt, and the slot holds nothing but the document
\* in memory or, until the save effect has run, the one before its last change
RemovalAtomic ==
    /\ ~TankPartlyRemoved(state)
    /\ lastOp.op = "removeAttempt" =>
          \A r \in Groups(state) \cup Log(state) : r.attemptId # lastOp.id
    /\ slot.k = "json" =>
          /\ ~TankPartlyRemoved(slot.v)
          /\ slot.v = Jsonable(IF dirty THEN prev ELSE state)

\* a removal has changed the document in memory, and the slot holds the document before it
\* until the save effect runs
RemovalPending ==
    /\ lastOp.op \in {"removeTank", "removeAttempt"}
    /\ dirty /\ slot.k = "json"
    /\ slot.v = Jsonable(prev) /\ slot.v # Jsonable(state)
    /\ Len(state.water.arr) + Len(state.groups.arr) < Len(prev.water.arr) + Len(prev.groups.arr)

-----------------------------------------------------------------------------
(* Lines.  LinesTab (lines 585-690) declares the props upsertLine and removeLine and calls
   them; the main component defines neither and renders no LinesTab (lines 1568-1646), so
   no action of Next is a handler of LinesTab *)

Lines(d) == Range(d.lines.arr)

\* LinesTab: linkedCount (line 603)
linkedCount(s, id) ==
    Len(SelectSeq(s.attempts.arr, LAMBDA a: a.lineId = id /\ ~Truthy(a.archived)))

\* the document that removing the line id is to leave: a line a non-archived attempt names is
\* archived, any other line is absent
LineRemoved(s, id) ==
    IF linkedCount(s, id) > 0
    THEN [s EXCEPT !.lines = JArr([i \in DOMAIN s.lines.arr |->
             IF s.lines.arr[i].id = id THEN With(s.lines.arr[i], "archived", JBool(TRUE))
             ELSE s.lines.arr[i]])]
    ELSE [s EXCEPT !.lines = JArr(SelectSeq(s.lines.arr, LAMBDA l: l.id # id))]

\* C5: a line of the document can be removed, and removing it leaves it archived when a
\* non-archived attempt names it and absent otherwise: between two renders some handler of
\* the page takes the document to LineRemoved
LineRemovalOffered ==
    Ready => \A l \in Lines(state) : ENABLED (Next /\ state' = LineRemoved(state, l.id))

-----------------------------------------------------------------------------
(* Import (SettingsTab, lines 1412-1429) and the reload it ends with *)

\* the documents of the files the user picks
ImportDocA == setBreederName(seed(101), JStr("Import"))
ImportDocB == [tanks |-> JArr(<<[id |-> JStr("t1"), name |-> JStr("Fass"), volumeL |-> JNum(600)]>>)]

\* the contents of the files the user picks
FileTexts ==
    {Garbage, EmptyText, JsonText(JNull), JsonText(JNum(70)), JsonText(JStr("x")),
     JsonText(JBool(TRUE)), JsonText(JArr(<<>>)), JsonText(EmptyObj),
     JsonText(ImportDocA), JsonText(ImportDocB)}

\* JSON.parse(txt) raises
parseThrows(txt) == txt.k # "json"

\* the test of line 1419 that lets null through: typeof null is "object"
importAcceptsNull(parsed) == TypeofObject(parsed)

\* the negation of (!parsed || typeof parsed !== "object") (line 1419)
importAccepts(parsed) == Truthy(parsed) /\ TypeofObject(parsed)

\* onChange up to await f.text() (lines 1412-1416), with a file chosen
ChooseFile(txt) ==
    /\ Ready /\ pc = "idle" /\ tab = "settings"
    /\ pc' = "reading"
    /\ payload' = txt
    /\ Local
    /\ UNCHANGED <<slot, nextId, uiVars, loadVars, rangeVars, dashVars>>

\* onChange from the text of the file on (lines 1416-1427), one task of the page: a text that
\* does not parse raises into the empty catch, a value that is not an object returns; else
\* setItem, resetAll (removeItem and setState(seed())), setItem and reload()
ImportResume ==
    /\ pc = "reading"
    /\ IF parseThrows(payload) \/ ~importAccepts(payload.v)
       THEN /\ pc' = "idle"
            /\ ops' = ops
            /\ prev' = state
            /\ lastOp' = Op("importRejected", NoId)
            /\ UNCHANGED <<state, slot, dirty, nextId>>
       ELSE /\ pc' = "reloading"
            /\ slot' = Stringify(payload.v)
            /\ Mutate(seed(nextId), "import", NoId)
            /\ nextId' = nextId + SeedIds
    /\ UNCHANGED <<payload, uiVars, loadVars, rangeVars, dashVars>>

\* the page is unloaded and loaded again: the new session starts as Mount does, on the slot
\* as it is now
Unload ==
    /\ pc = "reloading"
    /\ pc' = "idle"
    /\ state' = loadState(slot, nextId).doc
    /\ nextId' = loadState(slot, nextId).n
    /\ dirty' = TRUE
    /\ prev' = state
    /\ lastOp' = Op("reload", NoId)
    /\ ops' = ops
    /\ tab' = "dashboard"
    /\ selectedId' = NoId /\ editOpen' = FALSE /\ edit' = JNull
    /\ gTankId' = NoId /\ lTankId' = NoId
    /\ tOpen' = FALSE /\ tEditing' = JNull
    /\ wTankId' = NoId
    /\ UNCHANGED <<slot, payload, loadVars, rangeVars, dashVars>>

\* the session of a user who stays with the tabs' buttons and the settings
NextImport ==
    \/ \E t \in TabKeys : SetTab(t)
    \/ SaveEffect
    \/ SettingsNext
    \/ \E txt \in FileTexts : ChooseFile(txt)
    \/ ImportResume
    \/ Unload

SpecImport == Init /\ [][NextImport]_vars

\* the file holds the JSON text of an object or an array
StructuredPayload == payload.k = "json" /\ (IsObj(payload.v) \/ IsArr(payload.v))

\* C7: when the session has reloaded after an import, the slot holds the imported payload and
\* the document is the one loadState makes of it
ImportedAtReload ==
    lastOp.op = "reload" =>
        /\ slot = Stringify(payload.v)
        /\ state = loadState(Stringify(payload.v), 1).doc

\* C8: the step that ends the import of a file whose text does not parse, or parses to
\* something that is no object, changes neither the slot nor the document, schedules no save
\* and leaves the page loaded
RejectedImportIsNoOp ==
    [][(pc = "reading" /\ pc' # "reading" /\ ~StructuredPayload)
          => (slot' = slot /\ state' = state /\ dirty' = dirty /\ pc' = "idle")]_vars

\* the import of a file that holds a number has ended
NumberImportRejected ==
    /\ lastOp.op = "importRejected"
    /\ payload = JsonText(JNum(70))
    /\ pc = "idle"

-----------------------------------------------------------------------------
(* loadState on the contents the slot can hold *)

\* the declared types (lines 81-156)
HasFields(v, strs, nums, bools) ==
    /\ IsObj(v)
    /\ \A f \in strs : IsStr(Get(v, f))
    /\ \A f \in nums : IsNum(Get(v, f))
    /\ \A f \in bools : IsBool(Get(v, f))

IsStrings(v) == IsArr(v) /\ \A i \in DOMAIN v.arr : IsStr(v.arr[i])

IsTank(v) ==
    /\ HasFields(v, {"id", "name", "location", "purpose"}, {"volumeL"}, {"active"})
    /\ HasFields(Get(v, "waterParams"), {}, {}, ParamKeys)

IsLine(v) ==
    /\ HasFields(v, {"id", "name", "code", "notes"}, {}, {"archived"})
    /\ IsStrings(Get(v, "traits"))

IsAttempt(v) ==
    /\ HasFields(v, {"id", "name", "lineId", "startDate", "endDate", "goal", "notes"}, {},
                 {"active", "archived"})
    /\ IsStrings(Get(v, "tankIds"))

IsGroup(v) ==
    HasFields(v, {"id", "attemptId", "name", "tankId", "notes"}, {"maleCount", "femaleCount"},
              {"active", "archived"})

IsWaterEntry(v) ==
    /\ HasFields(v, {"id", "tankId", "date", "note"}, {}, {})
    /\ \A k \in ParamKeys \cap DOMAIN v : IsNum(v[k]) \/ v[k] = JNull

IsLogEntry(v) == HasFields(v, {"id", "attemptId", "tankId", "date", "kind", "title", "notes"}, {}, {})

IsLimit(v) ==
    /\ IsObj(v)
    /\ IsNum(Get(v, "min")) \/ Get(v, "min") = JNull
    /\ IsNum(Get(v, "max")) \/ Get(v, "max") = JNull

IsSettings(v) ==
    /\ HasFields(v, {"breederName"}, {"maxPhotoMB"}, {})
    /\ IsObj(Get(v, "waterLimits"))
    /\ \A k \in ParamKeys : IsLimit(Get(Get(v, "waterLimits"), k))

IsAppState(d) ==
    /\ IsObj(d)
    /\ IsSettings(Get(d, "settings"))
    /\ \A f \in {"tanks", "lines", "attempts", "groups", "water", "log"} : IsArr(Get(d, f))
    /\ \A i \in DOMAIN d.tanks.arr : IsTank(d.tanks.arr[i])
    /\ \A i \in DOMAIN d.lines.arr : IsLine(d.lines.arr[i])
    /\ \A i \in DOMAIN d.attempts.arr : IsAttempt(d.attempts.arr[i])
    /\ \A i \in DOMAIN d.groups.arr : IsGroup(d.groups.arr[i])
    /\ \A i \in DOMAIN d.water.arr : IsWaterEntry(d.water.arr[i])
    /\ \A i \in DOMAIN d.log.arr : IsLogEntry(d.log.arr[i])

\* values a stored document can have under its keys; Undefined stands for a key it lacks
SettingsStored ==
    {Undefined, JStr("junk"),
     [breederName |-> JStr("Andre"), maxPhotoMB |-> JStr("3"),
      waterLimits |-> [temp |-> [min |-> JNum(220), max |-> JStr("28")], ph |-> JNum(70)]]}
TanksStored ==
    {Undefined, JStr("none"), seed(101).tanks, JArr(<<EmptyObj>>),
     JArr(<<JNull, JStr("Fass"), [id |-> JNum(70), volumeL |-> JStr("54"), active |-> JBool(FALSE),
                                  waterParams |-> [temp |-> JBool(TRUE), ph |-> JNum(10)]]>>)}
AttemptsStored == {Undefined, seed(101).attempts, JArr(<<EmptyObj>>)}
LogStored == {Undefined, seed(101).log, JArr(<<JNull>>)}
RestStored ==
    {[lines |-> Undefined, groups |-> Undefined, water |-> Undefined],
     [lines |-> seed(101).lines, groups |-> seed(101).groups, water |-> seed(101).water]}

\* the contents of the slot: none, the empty text, a text that is no JSON, JSON texts of
\* values that are no objects, and JSON texts of objects
RawSlots ==
    {Absent, EmptyText, Garbage, JsonText(JNull), JsonText(JNum(70)), JsonText(JStr("x")),
     JsonText(JBool(TRUE)), JsonText(JArr(<<>>)), Stringify(seed(101))}
    \cup {Stringify([settings |-> st, tanks |-> t, attempts |-> a, log |-> l,
                     lines |-> r.lines, groups |-> r.groups, water |-> r.water]) :
             st \in SettingsStored, t \in TanksStored, a \in AttemptsStored, l \in LogStored,
             r \in RestStored}

InitLoad ==
    /\ Mount(Absent)
    /\ pc = "idle" /\ payload = Absent
    /\ raw \in RawSlots /\ loaded = JNull
    /\ RangeIdle /\ DashIdle

\* loadState() with the slot holding raw
Load ==
    /\ loaded = JNull
    /\ loaded' = loadState(raw, 1)
    /\ UNCHANGED <<state, slot, dirty, nextId, uiVars, importVars, raw, rangeVars, dashVars, lastOp, prev, ops>>

SpecLoad == InitLoad /\ [][Load]_vars

\* C9: loadState raises on no content of the slot, and the document it returns has settings
\* and six collections whose entities all have the fields of their types, with those types
LoadStateNormalizes == loaded # JNull => ~loaded.threw /\ IsAppState(loaded.doc)

\* C10: on a slot that is absent, empty or no JSON text, loadState raises nothing and returns
\* the seed document, newly made: 2 tanks, 1 line, 1 attempt, 2 groups, 2 water entries and
\* 2 log entries
LoadFallsBackToSeed ==
    (loaded # JNull /\ raw \in {Absent, EmptyText, Garbage}) =>
        /\ ~loaded.threw
        /\ IsAppState(loaded.doc)
        /\ loaded.doc = seed(1)
        /\ Len(loaded.doc.tanks.arr) = 2 /\ Len(loaded.doc.lines.arr) = 1
        /\ Len(loaded.doc.attempts.arr) = 1 /\ Len(loaded.doc.groups.arr) = 2
        /\ Len(loaded.doc.water.arr) = 2 /\ Len(loaded.doc.log.arr) = 2

\* loadState has returned on a slot that holds a text JSON.parse rejects
GarbageLoaded == raw = Garbage /\ loaded # JNull /\ ~loaded.threw

-----------------------------------------------------------------------------
(* Groups made in the journal *)

\* C16: the group the group form has just made names a tank that is one of the tanks of its
\* attempt
NewGroupInAttemptTank ==
    lastOp.op = "upsertGroup" =>
        LET g == Find(state.groups.arr, lastOp.id)
            a == Find(state.attempts.arr, g.attemptId)
        IN  a # JNull /\ Includes(a.tankIds.arr, g.tankId)

-----------------------------------------------------------------------------
(* Persistence of every change *)

\* C13: every change of the document is written in full to the slot before the next handler
\* runs, so that with no write pending the slot holds the text of the document in memory: a
\* step changes the document only with no write pending and leaves one pending, the step
\* that ends a pending write puts the text of the whole document into the slot, and with no
\* write pending before and after a step, document and slot stay as they are
ChangesAreWritten ==
    [][/\ state' # state => ~dirty /\ dirty'
       /\ (dirty /\ ~dirty') => slot' = Stringify(state) /\ state' = state
       /\ (~dirty /\ ~dirty') => slot' = slot /\ state' = state]_vars

\* a change of the document has been written
ChangeWritten == ~dirty /\ ops > 0 /\ state # seed(1) /\ slot = Stringify(state)

-----------------------------------------------------------------------------
(* The group and water forms with free text in their fields *)

\* texts typed into the count fields of the group form, which are text inputs (lines 959-964)
GroupCountTexts == {"", "3", "abc", "-3"}
\* texts typed into a value field of the water form, a text input (line 1280)
WaterFormTexts == {"", " ", "7,5", " 7 ", "abc", "-3", "1e999"}

NextForms ==
    \/ \E t \in TabKeys : SetTab(t)
    \/ SaveEffect
    \/ \E name \in NameTexts, m \in GroupCountTexts, f \in GroupCountTexts : AddGroup(name, m, f)
    \/ \E id \in Ids(state.groups.arr) : RemoveGroup(id)
    \/ \E id \in Ids(state.tanks.arr) : SelectWaterTank(id)
    \/ \E date \in DateTexts, text \in WaterFormTexts : AddWater(date, text)
    \/ \E id \in Ids(state.water.arr) : RemoveWater(id)

SpecForms == Init /\ [][NextForms]_vars

\* a number that JSON can write, or null
FiniteOrNull(v) == v = JNull \/ IsFinite(v)

\* the document d has every field, each of its type with numbers that are finite, and no tank
\* of it has the empty name
WellFormed(d) ==
    /\ IsAppState(d)
    /\ IsFinite(d.settings.maxPhotoMB)
    /\ \A k \in ParamKeys :
          FiniteOrNull(d.settings.waterLimits[k].min) /\ FiniteOrNull(d.settings.waterLimits[k].max)
    /\ \A t \in Tanks(d) : t.name # JStr("") /\ IsFinite(t.volumeL)
    /\ \A g \in Groups(d) : IsFinite(g.maleCount) /\ IsFinite(g.femaleCount)
    /\ \A w \in Water(d) : \A k \in ParamKeys \cap DOMAIN w : FiniteOrNull(w[k])

WaterValuesFiniteOrNull ==
    \A w \in Water(state) : \A k \in ParamKeys : k \in DOMAIN w => FiniteOrNull(w[k])

\* the water form has stored null for the text of its first field, and a number for none
WaterTextStoredAsNull ==
    /\ lastOp.op = "addWater"
    /\ LET w == Find(state.water.arr, lastOp.id)
       IN  \A k \in ParamKeys \cap DOMAIN w : w[k] = JNull

\* a number that is a non-negative integer (numbers are held in tenths)
IsCount(v) == IsFinite(v) /\ v.num >= 0 /\ v.num % 10 = 0

\* C19: every group of the document has a maleCount and a femaleCount that are non-negative
\* integers, whatever texts the group form was saved with
GroupCountsAreCounts ==
    \A g \in Groups(state) : IsCount(g.maleCount) /\ IsCount(g.femaleCount)

-----------------------------------------------------------------------------
(* Writes to the slot that fail *)

\* useEffect(() => saveState(state), [state]) when setItem raises (lines 1485-1487): the effect
\* has run, and runs again only after state changes
SaveEffectFailing ==
    /\ dirty
    /\ pc \in {"idle", "reading", "reloading"}
    /\ LET r == saveStateOn(slot, state, FALSE)
       IN  /\ slot' = r.item
           /\ lastOp' = Op(IF r.threw THEN "saveRaised" ELSE "saveFailed", NoId)
    /\ dirty' = FALSE
    /\ prev' = state
    /\ UNCHANGED <<state, ops, nextId, uiVars, importVars, loadVars, rangeVars, dashVars>>

NextQuota ==
    \/ \E t \in TabKeys : SetTab(t)
    \/ SaveEffect
    \/ SaveEffectFailing
    \/ TanksNext
    \/ SettingsNext

SpecQuota == Init /\ [][NextQuota]_vars

\* C12: a save whose write fails raises nothing, leaves the document in memory and the content
\* of the slot as they were, is not tried again, and leaves the handlers ready for the next
\* change of the document
FailedSaveIsIgnored ==
    [][lastOp'.op \in {"saveFailed", "saveRaised"} =>
          /\ lastOp'.op = "saveFailed"
          /\ state' = state /\ slot' = slot
          /\ ~dirty' /\ ~(ENABLED SaveEffectFailing)'
          /\ ops' < MaxOps => Ready']_vars

\* a save has failed after an earlier one was written: the slot holds the earlier document
SaveFailedAfterSave ==
    /\ lastOp.op = "saveFailed" /\ slot.k = "json"
    /\ slot # Stringify(state)

-----------------------------------------------------------------------------
(* The mutations of the main component, called with any argument (lines 1502-1561) *)

\* a stored document whose attempt has lost its tanks
IdleAttemptDoc ==
    LET d == seed(101)
    IN  [d EXCEPT !.attempts = JArr([i \in DOMAIN d.attempts.arr |->
                                       With(d.attempts.arr[i], "tankIds", JArr(<<>>))])]

\* contents of the slot the store starts from
StoreSlots == {Absent, Stringify(IdleAttemptDoc)}

InitStore ==
    /\ \E item \in StoreSlots : Mount(item)
    /\ pc = "idle" /\ payload = Absent
    /\ raw = Absent /\ loaded = JNull
    /\ RangeIdle /\ DashIdle

\* ids a mutation can be called with for the collection q: those of its records, one that no
\* record of the document has, and the empty text
CallIds(q) == Ids(q) \cup {uid(nextId), NoId}

\* setState(updater) of a mutation called with arg, s2 being what the updater returns
Call(s2, name, arg, id) ==
    /\ ops < MaxOps
    /\ ops' = ops + 1
    /\ state' = s2
    /\ prev' = state
    /\ lastOp' = [op |-> name, id |-> id, arg |-> arg]
    /\ dirty' = TRUE
    /\ nextId' = nextId + 1
    /\ UNCHANGED <<slot, uiVars, importVars, loadVars, rangeVars, dashVars>>

CallUpsertTank(id) ==
    LET t == tankOfForm("Neu", "1", ParamsOn({}), id)
    IN  Call(upsertTank(state, t), "upsertTank", t, id)

CallUpsertAttempt(id) ==
    LET a == attemptOfForm("Neu", FirstId(state.lines.arr), <<FirstId(state.tanks.arr)>>, Today, id)
    IN  Call(upsertAttempt(state, a), "upsertAttempt", a, id)

CallUpsertGroup(id) ==
    LET g == [id |-> id, attemptId |-> FirstId(state.attempts.arr), name |-> JStr("Neu"),
              tankId |-> FirstId(state.tanks.arr), maleCount |-> JNum(10), femaleCount |-> JNum(30),
              notes |-> JStr(""), active |-> JBool(TRUE), archived |-> JBool(FALSE)]
    IN  Call(upsertGroup(state, g), "upsertGroup", g, id)

CallRemoveTank(id) == Call(removeTank(state, id), "removeTank", id, id)
CallRemoveAttempt(id) == Call(removeAttempt(state, id), "removeAttempt", id, id)
CallRemoveGroup(id) == Call(removeGroup(state, id), "removeGroup", id, id)
CallRemoveWater(id) == Call(removeWater(state, id), "removeWater", id, id)
CallRemoveLog(id) == Call(removeLog(state, id), "removeLog", id, id)

NextStore ==
    \/ \E id \in CallIds(state.tanks.arr) \ {NoId} : CallUpsertTank(id)
    \/ \E id \in CallIds(state.attempts.arr) \ {NoId} : CallUpsertAttempt(id)
    \/ \E id \in CallIds(state.groups.arr) \ {NoId} : CallUpsertGroup(id)
    \/ \E id \in CallIds(state.tanks.arr) : CallRemoveTank(id)
    \/ \E id \in CallIds(state.attempts.arr) : CallRemoveAttempt(id)
    \/ \E id \in CallIds(state.groups.arr) : CallRemoveGroup(id)
    \/ \E id \in CallIds(state.water.arr) : CallRemoveWater(id)
    \/ \E id \in CallIds(state.log.arr) : CallRemoveLog(id)

SpecStore == InitStore /\ [][NextStore]_vars

\* the collection of the document d that the mutation named op works on
CollectionOf(d, op) ==
    CASE op \in {"upsertTank", "removeTank"} -> d.tanks.arr
      [] op \in {"upsertAttempt", "removeAttempt"} -> d.attempts.arr
      [] op \in {"upsertGroup", "removeGroup"} -> d.groups.arr
      [] op = "removeWater" -> d.water.arr
      [] op = "removeLog" -> d.log.arr

\* C14: upsertTank, upsertAttempt and upsertGroup called with e: when a record has e's id, the
\* collection keeps its length and every record its position, that record having e's fields;
\* when none has, e is put before the others, which keep their order
UpsertReplacesOrPrepends ==
    lastOp.op \in {"upsertTank", "upsertAttempt", "upsertGroup"} =>
        LET old == CollectionOf(prev, lastOp.op)
            new == CollectionOf(state, lastOp.op)
            e == lastOp.arg
        IN  IF HasId(old, e.id)
            THEN /\ Len(new) = Len(old)
                 /\ \A i \in DOMAIN old :
                       new[i] = IF old[i].id = e.id THEN Spread(old[i], e) ELSE old[i]
            ELSE new = Cons(e, old)

\* C15: removeTank, removeAttempt, removeGroup, removeWater and removeLog called with an id
\* that no record of their collection has leave the document as it was
RemoveOfAbsentIdIsNoOp ==
    (/\ lastOp.op \in {"removeTank", "removeAttempt", "removeGroup", "removeWater", "removeLog"}
     /\ ~HasId(CollectionOf(prev, lastOp.op), lastOp.id)) => state = prev

-----------------------------------------------------------------------------
(* Threshold classification of a water value (lines 72-77, 1207-1217) *)

\* values of a parameter of a water entry: null, not recorded, or a number (in tenths)
RangeValues == {JNull, Undefined} \cup {JNum(n) : n \in {30, 40, 50, 55, 60, 70}}
\* a bound of a limit: not configured, or a number (in tenths)
RangeBounds == {JNull} \cup {JNum(n) : n \in {40, 50, 60}}

InitRange ==
    /\ Mount(Absent)
    /\ pc = "idle" /\ payload = Absent
    /\ raw = Absent /\ loaded = JNull
    /\ value \in RangeValues
    /\ lim \in [min : RangeBounds, max : RangeBounds]
    /\ badge = "" /\ DashIdle

\* statusBadge: inRange(val, props.limits[k])
Classify ==
    /\ badge = ""
    /\ badge' = inRange(value, lim)
    /\ UNCHANGED <<state, slot, dirty, nextId, uiVars, importVars, loadVars, value, lim, dashVars,
                   lastOp, prev, ops>>

SpecRange == InitRange /\ [][Classify]_vars

\* C17: inRange answers na exactly for a value that is absent; for a number it answers low
\* when min is configured and the value is below it, else high when max is configured and
\* the value is above it, else ok, so a value equal to a bound, or with no bound configured,
\* is ok
InRangeClassifies ==
    badge # "" =>
        /\ badge = "na" <=> value \in {JNull, Undefined}
        /\ value \notin {JNull, Undefined} =>
              LET below == lim.min # JNull /\ value.num < lim.min.num
                  above == lim.max # JNull /\ value.num > lim.max.num
              IN  /\ below => badge = "low"
                  /\ (above /\ ~below) => badge = "high"
                  /\ (~above /\ ~below) => badge = "ok"
        /\ (value = JNum(50) /\ lim.min = JNum(60)) => badge = "low"
        /\ (value = JNum(50) /\ lim.min = JNull /\ lim.max = JNum(40)) => badge = "high"
        /\ (value = JNum(50) /\ lim = [min |-> JNum(50), max |-> JNum(50)]) => badge = "ok"

\* a value equal to both of its bounds has been classified
BoundaryClassified == badge # "" /\ value = JNum(50) /\ lim = [min |-> JNum(50), max |-> JNum(50)]

-----------------------------------------------------------------------------
(* The lifecycle buttons of an attempt (lines 895-900) *)

\* the props the main component passes to ZuchtjournalTab (lines 1603-1617)
JournalProps ==
    {"tanks", "lines", "attempts", "groups", "log", "tanksById", "linesById", "upsertAttempt",
     "removeAttempt", "upsertGroup", "removeGroup", "addLog", "removeLog"}

\* a click on a button whose handler calls props[name](selected.id): a prop that is not passed
\* is undefined and calling it raises a TypeError, which ends the handler with nothing changed
CallMissingProp(name) ==
    /\ Ready /\ tab = "zuchtjournal"
    /\ selectedOf(state, selectedId) # JNull
    /\ name \notin JournalProps
    /\ lastOp' = Op(name, selectedId)
    /\ prev' = state
    /\ UNCHANGED <<state, slot, dirty, ops, nextId, uiVars, importVars, loadVars, rangeVars, dashVars>>

\* "Beenden" (line 895)
EndAttempt == CallMissingProp("endAttempt")
\* "Archivieren" (line 898)
ArchiveAttempt == CallMissingProp("archiveAttempt")

NextLifecycle ==
    \/ Next
    \/ EndAttempt
    \/ ArchiveAttempt

SpecLifecycle == Init /\ [][NextLifecycle]_vars

\* the attempt of the document d with the given id, or null
AttemptOf(d, id) == Find(d.attempts.arr, id)

\* C20: the end action leaves the selected attempt ended (not active, with an end date, still
\* in the document), the archive action leaves it archived, and no step makes an archived
\* attempt not archived or an ended attempt active again
AttemptLifecycle ==
    [][/\ lastOp'.op = "endAttempt" =>
             /\ AttemptOf(state', lastOp'.id) # JNull
             /\ AttemptOf(state', lastOp'.id).active = JBool(FALSE)
             /\ AttemptOf(state', lastOp'.id).endDate # JStr("")
       /\ lastOp'.op = "archiveAttempt" =>
             /\ AttemptOf(state', lastOp'.id) # JNull
             /\ AttemptOf(state', lastOp'.id).archived = JBool(TRUE)
       /\ \A a \in Attempts(state) : \A b \in Attempts(state') :
             b.id = a.id =>
                 /\ a.archived = JBool(TRUE) => b.archived = JBool(TRUE)
                 /\ (a.active = JBool(FALSE) /\ a.endDate # JStr("")) => b.active = JBool(FALSE)]_vars

-----------------------------------------------------------------------------
(* Removal of a tank of the seed document *)

\* C21: removeTank of either tank of the seed document leaves the other tank, the attempt with
\* the other tank's id alone in tankIds, the one group and the one water entry of the other
\* tank, and of the log the entries of the other tank and the general one
SeedTankRemoval ==
    (lastOp.op = "removeTank" /\ prev = seed(1) /\ HasId(prev.tanks.arr, lastOp.id)) =>
        LET s == seed(1)
            O == IF lastOp.id = s.tanks.arr[1].id THEN s.tanks.arr[2] ELSE s.tanks.arr[1]
            ofOther(q) == SelectSeq(q, LAMBDA r: r.tankId = O.id)
        IN  /\ state.tanks.arr = <<O>>
            /\ state.attempts.arr = <<With(s.attempts.arr[1], "tankIds", JArr(<<O.id>>))>>
            /\ state.groups.arr = ofOther(s.groups.arr) /\ Len(state.groups.arr) = 1
            /\ state.water.arr = ofOther(s.water.arr) /\ Len(state.water.arr) = 1
            /\ state.log.arr = SelectSeq(s.log.arr, LAMBDA e: e.tankId \in {O.id, JStr("")})
            /\ \E e \in Log(state) : e.tankId = JStr("")
            /\ state.lines = s.lines /\ state.settings = s.settings

\* the first tank of the seed document, which has a log entry of its own, has been removed
SeedTankARemoved == lastOp.op = "removeTank" /\ prev = seed(1) /\ lastOp.id = seed(1).tanks.arr[1].id

-----------------------------------------------------------------------------
(* DashboardTab (lines 395-399) *)

\* the dates of the model in the order of their texts
DateRank == [d \in {SeedT0, SeedT1, Today} |-> CASE d = SeedT0 -> 1 [] d = SeedT1 -> 2 [] d = Today -> 3]
\* a < b on the date texts of the model
DateLess(a, b) == DateRank[a] < DateRank[b]

\* props.state.attempts.filter(a => a.active && !a.archived).length
activeAttempts(s) ==
    Cardinality({i \in DOMAIN s.attempts.arr :
                    Truthy(s.attempts.arr[i].active) /\ ~Truthy(s.attempts.arr[i].archived)})
\* props.state.tanks.filter(t => t.active).length
activeTanks(s) == Cardinality({i \in DOMAIN s.tanks.arr : Truthy(s.tanks.arr[i].active)})

\* the values of log.slice().sort((a, b) => (a.date < b.date ? 1 : -1))[0] || null.  The
\* comparator answers -1 both ways for two entries of one date, so it is no consistent
\* comparator and the order of such entries is the engine's choice: every entry with the
\* greatest date can come first
lastLogOutcomes(q) ==
    IF q = <<>> THEN {JNull}
    ELSE {q[i] : i \in {k \in DOMAIN q : \A m \in DOMAIN q : ~DateLess(q[k].date, q[m].date)}}

\* contents of the slot the dashboard starts from: none, and a document with nothing in it
DashboardSlots == {Absent, JsonText(EmptyObj)}

InitDashboard ==
    /\ \E item \in DashboardSlots : Mount(item)
    /\ pc = "idle" /\ payload = Absent
    /\ raw = Absent /\ loaded = JNull
    /\ RangeIdle /\ DashIdle

\* a render of DashboardTab: .doc is the document it was given
RenderDashboard ==
    /\ tab = "dashboard"
    /\ \E l \in lastLogOutcomes(state.log.arr) :
          dash' = [doc |-> state, activeAttempts |-> activeAttempts(state),
                   activeTanks |-> activeTanks(state), lastLog |-> l]
    /\ dash' # dash
    /\ UNCHANGED <<state, slot, dirty, nextId, uiVars, importVars, loadVars, rangeVars,
                   lastOp, prev, ops>>

\* the dates picked in the date field of the log form
LogDates == {SeedT0, SeedT1, Today}

NextDashboard ==
    \/ \E t \in TabKeys : SetTab(t)
    \/ SaveEffect
    \/ RenderDashboard
    \/ \E id \in Ids(state.tanks.arr) : ToggleTankActive(id)
    \/ \E id \in Ids(state.tanks.arr) : RemoveTank(id)
    \/ \E date \in LogDates : AddLog(date)
    \/ \E id \in Ids(state.log.arr) : RemoveLog(id)

SpecDashboard == InitDashboard /\ [][NextDashboard]_vars

\* C22: the dashboard counts the attempts that are active and not archived and the tanks that
\* are active, and its last entry is the first entry of the log among those with the greatest
\* date; with no attempts, tanks and log entries the counts are 0 and there is no last entry
DashboardAggregates ==
    (dash # JNull /\ dash.doc = state) =>
        LET q == state.log.arr
            newest == {k \in DOMAIN q : \A m \in DOMAIN q : DateRank[q[m].date] <= DateRank[q[k].date]}
        IN  /\ dash.activeAttempts =
                  Cardinality({i \in DOMAIN state.attempts.arr :
                                  /\ state.attempts.arr[i].active = JBool(TRUE)
                                  /\ state.attempts.arr[i].archived = JBool(FALSE)})
            /\ dash.activeTanks =
                  Cardinality({i \in DOMAIN state.tanks.arr : state.tanks.arr[i].active = JBool(TRUE)})
            /\ q # <<>> => dash.lastLog = q[CHOOSE k \in newest : \A m \in newest : k <= m]
            /\ q = <<>> => dash.lastLog = JNull
            /\ (state.attempts.arr = <<>> /\ state.tanks.arr = <<>> /\ q = <<>>) =>
                  dash.activeAttempts = 0 /\ dash.activeTanks = 0 /\ dash.lastLog = JNull

-----------------------------------------------------------------------------
(* WaterTab: what it computes for the selected tank (lines 1146-1195) *)

\* the dates picked in the date field of the water form
WaterDates == {SeedT0, SeedT1, Today}
\* texts typed into the first value field of the water form
WaterValueTexts == {"7,5", ""}

NextWater ==
    \/ \E t \in TabKeys : SetTab(t)
    \/ SaveEffect
    \/ TanksNext
    \/ \E id \in Ids(state.tanks.arr) : SelectWaterTank(id)
    \/ \E date \in WaterDates, text \in WaterValueTexts : AddWater(date, text)
    \/ \E id \in Ids(state.water.arr) : RemoveWater(id)

SpecWater == Init /\ [][NextWater]_vars

\* the place of a parameter key in the catalog
CatalogPlace(k) == CHOOSE i \in DOMAIN ALL_PARAM_KEYS : ALL_PARAM_KEYS[i] = k

\* C23: for the tank selected in the water tab, the active parameters are the keys enabled on
\* the tank, each once and in the order of the catalog, or temp alone when the tank has none
\* enabled; the list is not empty
ActiveParamsOfTank ==
    (tab = "water" /\ HasId(state.tanks.arr, wTankId)) =>
        LET t == Find(state.tanks.arr, wTankId)
            on == {k \in ParamKeys : t.waterParams[k] = JBool(TRUE)}
            list == activeParams(state, wTankId)
        IN  /\ list # <<>>
            /\ Range(list) = IF on = {} THEN {"temp"} ELSE on
            /\ \A i, j \in DOMAIN list : i < j => CatalogPlace(list[i]) < CatalogPlace(list[j])

\* a tank with no parameter enabled is selected in the water tab
TankWithoutParamsSelected ==
    /\ tab = "water" /\ HasId(state.tanks.arr, wTankId)
    /\ \A k \in ParamKeys : Find(state.tanks.arr, wTankId).waterParams[k] = JBool(FALSE)

\* formatShort (lines 29-33) on the dates of the model: day, month and two digits of the year
formatShort(d) ==
    CASE d = SeedT0 -> "01.01.25"
      [] d = SeedT1 -> "15.01.25"
      [] d = Today -> "22.01.25"
      [] OTHER -> "-"

\* the comparator of line 1159: (a, b) => (a.date > b.date ? 1 : -1)
compareWater(a, b) == IF DateLess(b.date, a.date) THEN 1 ELSE -1

\* q.slice().sort(compareWater): the orders of q the sort can return. Where the comparator
\* answers one way for a pair and the other way for the swapped pair, the pair is in that
\* order; where it answers -1 both ways (equal dates, it never returns 0) the order is the
\* engine's choice
sortOutcomes(q) ==
    LET n == Len(q)
        cmp(a, b) == compareWater(a, b)
        perms == {f \in [1..n -> 1..n] : \A i, j \in 1..n : f[i] = f[j] => i = j}
        ordered(f) == \A i, j \in 1..n :
                          i < j => ~(cmp(q[f[i]], q[f[j]]) > 0 /\ cmp(q[f[j]], q[f[i]]) < 0)
    IN  {[i \in 1..n |-> q[f[i]]] : f \in {g \in perms : ordered(g)}}

\* waterForTank (lines 1158-1161)
waterForTank(s, tankId) ==
    sortOutcomes(SelectSeq(s.water.arr, LAMBDA w: w.tankId = tankId))

\* chartSeries that draws a missing value as 0
chartSeriesZero(act, rows) ==
    [a \in DOMAIN act |->
        [key |-> act[a],
         points |-> [i \in DOMAIN rows |->
                        LET v == Get(rows[i], act[a])
                        IN  [xLabel |-> formatShort(rows[i].date),
                             y |-> IF IsNum(v) THEN v ELSE JNum(0)]]]]

\* chartSeries (lines 1180-1195), of the active parameters and the rows of waterForTank
chartSeries(act, rows) ==
    [a \in DOMAIN act |->
        [key |-> act[a],
         points |-> [i \in DOMAIN rows |->
                        LET v == Get(rows[i], act[a])
                        IN  [xLabel |-> formatShort(rows[i].date),
                             y |-> IF IsNum(v) THEN v ELSE JNull]]]]

\* C24: in the water tab, for the selected tank and each active parameter, the series has one
\* point per water entry of that tank and none of another tank, the points follow the entries
\* in non-decreasing order of date, and the point of an entry without a number for the
\* parameter has y null, not 0; the point of an entry with a number has that number
ChartSeriesOfTank ==
    tab = "water" =>
        \A rows \in waterForTank(state, wTankId) :
            LET act == activeParams(state, wTankId)
                series == chartSeries(act, rows)
                mine == {i \in DOMAIN state.water.arr : state.water.arr[i].tankId = wTankId}
            IN  /\ {rows[i] : i \in DOMAIN rows} = {state.water.arr[i] : i \in mine}
                /\ Len(rows) = Cardinality(mine)
                /\ \A i, j \in DOMAIN rows : i < j => ~DateLess(rows[j].date, rows[i].date)
                /\ DOMAIN series = DOMAIN act
                /\ \A a \in DOMAIN act :
                      /\ series[a].key = act[a]
                      /\ Len(series[a].points) = Cardinality(mine)
                      /\ \A i \in DOMAIN rows :
                            LET v == Get(rows[i], act[a])
                                p == series[a].points[i]
                            IN  /\ p.xLabel = formatShort(rows[i].date)
                                /\ IsNum(v) => p.y = v
                                /\ ~IsNum(v) => p.y = JNull /\ p.y # JNum(0)

\* the selected tank has a later entry before an earlier one in the collection, and an entry
\* without a number for an active parameter
ChartOfUnsortedEntries ==
    /\ tab = "water"
    /\ \E i, j \in DOMAIN state.water.arr :
          /\ i < j
          /\ state.water.arr[i].tankId = wTankId /\ state.water.arr[j].tankId = wTankId
          /\ DateLess(state.water.arr[j].date, state.water.arr[i].date)
    /\ \E i \in DOMAIN state.water.arr, k \in Range(activeParams(state, wTankId)) :
          state.water.arr[i].tankId = wTankId /\ ~IsNum(Get(state.water.arr[i], k))
    /\ \E w \in Range(state.water.arr) : w.tankId # wTankId

-----------------------------------------------------------------------------
(* The defaults loadState fills in (lines 245-289) *)

CollectionKeys == {"tanks", "lines", "attempts", "groups", "water", "log"}

\* the slot holds the JSON text of a value other than null, which loadState has read
StoredValueLoaded == loaded # JNull /\ raw.k = "json" /\ ~IsNullish(raw.v)

\* C25: of a stored value loadState reads, a tank without a name is loaded with the name
\* "Becken", a tank whose active is missing or anything but false is loaded active, a parameter
\* flag of a tank that is no boolean is loaded false, a bound of a water limit that is no
\* number is loaded null, and a collection that is no array is loaded as the empty list
LoadFillsDefaults ==
    StoredValueLoaded =>
        LET p == raw.v
            d == loaded.doc
            limits == Get(Get(p, "settings"), "waterLimits")
        IN  /\ ~loaded.threw
            /\ \A f \in CollectionKeys : ~IsArr(Get(p, f)) => d[f] = JArr(<<>>)
            /\ IsArr(Get(p, "tanks")) =>
                  /\ Len(d.tanks.arr) = Len(p.tanks.arr)
                  /\ \A i \in DOMAIN p.tanks.arr :
                        LET t == p.tanks.arr[i]
                            n == d.tanks.arr[i]
                        IN  /\ Get(t, "name") = Undefined => n.name = JStr("Becken")
                            /\ n.active = JBool(Get(t, "active") # JBool(FALSE))
                            /\ \A k \in ParamKeys :
                                  LET flag == Get(Get(t, "waterParams"), k)
                                  IN  n.waterParams[k] = IF IsBool(flag) THEN flag ELSE JBool(FALSE)
            /\ \A k \in ParamKeys, b \in {"min", "max"} :
                  LET bound == Get(Get(limits, k), b)
                  IN  d.settings.waterLimits[k][b] = IF IsNum(bound) THEN bound ELSE JNull

\* loadState has read a value with a collection that is no array, a tank without name and
\* active whose flag of one parameter is a number, and a limit with a text as a bound
MalformedDocumentLoaded ==
    /\ StoredValueLoaded
    /\ ~IsArr(Get(raw.v, "attempts"))
    /\ IsArr(Get(raw.v, "tanks"))
    /\ \E i \in DOMAIN raw.v.tanks.arr :
          LET t == raw.v.tanks.arr[i]
          IN  /\ IsObj(t) /\ Get(t, "name") = Undefined /\ Get(t, "active") = JBool(FALSE)
              /\ IsNum(Get(Get(t, "waterParams"), "ph"))
    /\ \E i \in DOMAIN raw.v.tanks.arr : Get(raw.v.tanks.arr[i], "active") = Undefined
    /\ IsStr(Get(Get(Get(Get(raw.v, "settings"), "waterLimits"), "temp"), "max"))

-----------------------------------------------------------------------------
(* Sessions that start on the seed document or on what an earlier session left of it *)

\* the seed document of an earlier session after removeTank of both of its tanks
SeedWithoutTanks ==
    LET s == seed(101)
    IN  removeTank(removeTank(s, s.tanks.arr[1].id), s.tanks.arr[2].id)

SessionSlots == {Absent, Stringify(SeedWithoutTanks)}

InitSessions ==
    /\ \E item \in SessionSlots : Mount(item)
    /\ pc = "idle" /\ payload = Absent
    /\ raw = Absent /\ loaded = JNull
    /\ RangeIdle /\ DashIdle

SpecSessions == InitSessions /\ [][Next]_vars

\* C26: the tankId of every group and of every water entry, and every tankId other than ""
\* of a log entry, is the id of a tank of the document
RecordsNameTanks ==
    /\ \A g \in Groups(state) : HasId(state.tanks.arr, g.tankId)
    /\ \A w \in Water(state) : HasId(state.tanks.arr, w.tankId)
    /\ \A e \in Log(state) : e.tankId # JStr("") => HasId(state.tanks.arr, e.tankId)

-----------------------------------------------------------------------------
(* The tanks of the attempts: the attempt editor and the tanks tab *)

NextAttempts ==
    \/ \E t \in TabKeys : SetTab(t)
    \/ SaveEffect
    \/ \E id \in Ids(state.attempts.arr) : SelectAttempt(id)
    \/ OpenNewAttempt
    \/ OpenEditAttempt
    \/ CloseAttemptEditor
    \/ \E name \in NameTexts, lineId \in Ids(state.lines.arr), start \in DateTexts :
          SaveAttempt(name, lineId, start)
    \/ \E id \in Ids(state.attempts.arr) : RemoveAttempt(id)
    \/ TanksNext

SpecAttempts == Init /\ [][NextAttempts]_vars

\* C27: every id in the tankIds of every attempt is the id of a tank of the document, and no
\* id is twice in the tankIds of an attempt
AttemptTankIdsPresentOnce ==
    \A a \in Attempts(state) :
        /\ \A i \in DOMAIN a.tankIds.arr : HasId(state.tanks.arr, a.tankIds.arr[i])
        /\ \A i, j \in DOMAIN a.tankIds.arr : a.tankIds.arr[i] = a.tankIds.arr[j] => i = j

\* the editor has saved an attempt whose tanks were ticked and unticked: it has two tanks, or
\* a tank other than the first of the document
TickedAttemptSaved ==
    /\ lastOp.op = "upsertAttempt"
    /\ LET a == Find(state.attempts.arr, lastOp.id)
       IN  \/ Len(a.tankIds.arr) = 2 /\ a.name = JStr("Neu")
           \/ a.tankIds.arr[1] # state.tanks.arr[1].id

-----------------------------------------------------------------------------
(* The frame of saving the tank editor *)

\* C28: "Speichern" of the tank editor on a tank of the document leaves everything but that
\* tank as it is, and leaves the tank its id, its place and the active flag it had in the
\* document just before the save
TankSaveKeepsActive ==
    (lastOp.op = "upsertTank" /\ HasId(prev.tanks.arr, lastOp.id)) =>
        /\ state = [prev EXCEPT !.tanks = state.tanks]
        /\ Len(state.tanks.arr) = Len(prev.tanks.arr)
        /\ \A i \in DOMAIN prev.tanks.arr :
              IF prev.tanks.arr[i].id = lastOp.id
              THEN /\ state.tanks.arr[i].id = lastOp.id
                   /\ state.tanks.arr[i].active = prev.tanks.arr[i].active
              ELSE state.tanks.arr[i] = prev.tanks.arr[i]

-----------------------------------------------------------------------------
(* The frame of the removals *)

\* the records of q that are not of tank id, in the order of q
NotOfTank(q, id) == SelectSeq(q, LAMBDA r: r.tankId # id)
\* the records of q that are not of attempt id, in the order of q
NotOfAttempt(q, id) == SelectSeq(q, LAMBDA r: r.attemptId # id)

\* C29: removeTank(X) leaves settings and lines as they are and leaves the groups, water
\* entries and log entries whose tankId is not X as they are and in their order;
\* removeAttempt(Y) leaves settings, tanks, lines and water as they are and leaves the attempts
\* other than Y and the groups and log entries of other attempts as they are and in their order
RemovalFrames ==
    /\ lastOp.op = "removeTank" =>
          /\ state.settings = prev.settings /\ state.lines = prev.lines
          /\ \A f \in {"groups", "water", "log"} :
                /\ NotOfTank(state[f].arr, lastOp.id) = NotOfTank(prev[f].arr, lastOp.id)
                /\ Range(state[f].arr) \subseteq Range(prev[f].arr)
    /\ lastOp.op = "removeAttempt" =>
          /\ state.settings = prev.settings /\ state.tanks = prev.tanks
          /\ state.lines = prev.lines /\ state.water = prev.water
          /\ SelectSeq(state.attempts.arr, LAMBDA a: a.id # lastOp.id)
                = SelectSeq(prev.attempts.arr, LAMBDA a: a.id # lastOp.id)
          /\ \A f \in {"groups", "log"} :
                /\ NotOfAttempt(state[f].arr, lastOp.id) = NotOfAttempt(prev[f].arr, lastOp.id)
                /\ Range(state[f].arr) \subseteq Range(prev[f].arr)

\* removeAttempt has removed one of two attempts, and groups and log entries of the other
\* attempt are left
AttemptRemovedBesideAnother ==
    /\ lastOp.op = "removeAttempt"
    /\ HasId(prev.attempts.arr, lastOp.id)
    /\ state.attempts.arr # <<>>
    /\ state.groups.arr # <<>> /\ state.log.arr # <<>>

\* removeTank has removed a tank, and records of another tank are left
TankRemovedBesideAnother ==
    /\ lastOp.op = "removeTank"
    /\ HasId(prev.tanks.arr, lastOp.id)
    /\ prev # seed(1)
    /\ state.groups.arr # <<>> /\ state.water.arr # <<>> /\ state.log.arr # <<>>

-----------------------------------------------------------------------------
(* The ids of the records: every handler that makes or removes a record *)

NextRecords ==
    \/ \E t \in TabKeys : SetTab(t)
    \/ SaveEffect
    \/ OpenNewTank
    \/ \E id \in Ids(state.tanks.arr) : OpenEditTank(id)
    \/ \E name \in NameTexts, volume \in CountTexts, params \in ParamChoices :
          SaveTank(name, volume, params)
    \/ \E id \in Ids(state.tanks.arr) : RemoveTank(id)
    \/ OpenNewAttempt
    \/ OpenEditAttempt
    \/ \E name \in NameTexts, lineId \in Ids(state.lines.arr), start \in DateTexts :
          SaveAttempt(name, lineId, start)
    \/ \E id \in Ids(state.attempts.arr) : RemoveAttempt(id)
    \/ \E name \in NameTexts, m \in CountTexts, f \in CountTexts : AddGroup(name, m, f)
    \/ \E id \in Ids(state.groups.arr) : RemoveGroup(id)
    \/ \E date \in DateTexts : AddLog(date)
    \/ \E id \in Ids(state.log.arr) : RemoveLog(id)
    \/ \E date \in DateTexts, text \in WaterTexts : AddWater(date, text)
    \/ \E id \in Ids(state.water.arr) : RemoveWater(id)
    \/ ResetAll

SpecRecords == Init /\ [][NextRecords]_vars

\* no two records of q have the same id
UniqueIds(q) == \A i, j \in DOMAIN q : q[i].id = q[j].id => i = j

\* C30: with uid() returning a new value at every call, no two tanks, no two lines, no two
\* attempts, no two groups, no two water entries and no two log entries of the document have
\* the same id
IdsUniquePerCollection == \A f \in CollectionKeys : UniqueIds(state[f].arr)

\* a record has been made or remade with the document holding others of its collection:
\* a tank or attempt saved from its editor, or a group, water entry or log entry added
RecordMadeBesideOthers ==
    /\ lastOp.op \in {"upsertTank", "upsertAttempt", "upsertGroup", "addWater", "addLog"}
    /\ ops = MaxOps
    /\ \A f \in CollectionKeys \ {"lines"} : Len(state[f].arr) >= 2

====
